---- MODULE Spec2Model ----
(***************************************************************************)
(* Model of the hierarchical task synchronisation of                       *)
(* src/sync_projects_new.py: one run of                                    *)
(* sync_hierarchical_tasks_to_timecamp reads the flat source list          *)
(* (tasks.json), lists the TimeCamp tasks, creates the missing 'sync_'     *)
(* tasks parents first and archives the 'sync_' tasks that left the source.*)
(*                                                                         *)
(* Source task ids are strings in the program; here they are the numbers   *)
(* 1..MaxId, ordered as the strings are, and parent_id 0 is the root       *)
(* marker of the program.  An external id is the pair (prefix, id), so     *)
(* that f"sync_{task_id}" and startswith('sync_') are computed, not        *)
(* assumed.  The TimeCamp API is the environment: a create or an archive   *)
(* call either raises and changes nothing or succeeds (spec section 6),    *)
(* and the task list carries no two tasks with the same 'sync_' tag.       *)
(***************************************************************************)
EXTENDS Integers, Sequences, FiniteSets, TLC

\* ---------------------------------------------------------------- bounds
MaxTasks == 3
MaxId == 3
MaxDestId == 2
MaxPasses == 2

\* ------------------------------------------------------------- constants
TIMECAMP_TASK_ID == 999
RecursionError == -1
None == [task_id |-> 0]

\* ------------------------------------------------------------- data model
TaskIds == 1..MaxId

SourceNode == [task_id : TaskIds, parent_id : 0..MaxId]

RECURSIVE SeqsUpTo(_, _)
SeqsUpTo(S, n) ==
    IF n = 0 THEN {<<>>}
    ELSE LET shorter == SeqsUpTo(S, n - 1)
         IN  shorter \cup {Append(s, x) : s \in {t \in shorter : Len(t) = n - 1}, x \in S}

SourceLists == SeqsUpTo(SourceNode, MaxTasks)

NoExternalId == [prefix |-> "", id |-> 0]

ExternalId(task_id) == [prefix |-> "sync_", id |-> task_id]

StartsWithSync(external_id) == external_id.prefix = "sync_"

Truthy(external_id) == external_id # NoExternalId

DestEntry(task_id, external_id, parent_id, archived) ==
    [task_id |-> task_id, external_task_id |-> external_id,
     parent_id |-> parent_id, archived |-> archived]

IgnoredEntries ==
    << DestEntry(1, NoExternalId, TIMECAMP_TASK_ID, FALSE),
       DestEntry(2, [prefix |-> "redmine_", id |-> 1], TIMECAMP_TASK_ID, FALSE) >>

DestConfigs == [1..MaxDestId -> {"absent", "active", "archived"}]

RECURSIVE DestFromConfig(_, _)
DestFromConfig(cfg, k) ==
    IF k = 0 THEN IgnoredEntries
    ELSE LET rest == DestFromConfig(cfg, k - 1)
         IN  IF cfg[k] = "absent" THEN rest
             ELSE Append(rest, DestEntry(10 + k, ExternalId(k), TIMECAMP_TASK_ID,
                                         cfg[k] = "archived"))

\* ---------------------------------------------------------- pure helpers
Range(s) == {s[k] : k \in DOMAIN s}

MaxOf(S) == CHOOSE m \in S : \A x \in S : x <= m

\* next((t for t in all_tasks if t['task_id'] == parent_id), None)
FindTask(all_tasks, parent_id) ==
    LET hits == {k \in DOMAIN all_tasks : all_tasks[k].task_id = parent_id}
    IN  IF hits = {} THEN None
        ELSE all_tasks[CHOOSE k \in hits : \A h \in hits : k <= h]

\* A walk over more parent links than the list has nodes has revisited a
\* node and never ends: the interpreter stops it with RecursionError.
RecursionLimit(all_tasks) == Len(all_tasks)

\* mutant: the level of the parent is returned as it is (the + 1 is lost)
RECURSIVE get_hierarchy_level_NoIncrement(_, _, _)
get_hierarchy_level_NoIncrement(task, all_tasks, depth) ==
    IF depth > RecursionLimit(all_tasks) THEN RecursionError
    ELSE IF task.parent_id = 0 THEN 0
    ELSE LET parent_task == FindTask(all_tasks, task.parent_id)
         IN  IF parent_task = None THEN 0
             ELSE get_hierarchy_level_NoIncrement(parent_task, all_tasks, depth + 1)

\* mutant: a parent that is not in the list raises instead of giving level 0
RECURSIVE get_hierarchy_level_OrphanRaises(_, _, _)
get_hierarchy_level_OrphanRaises(task, all_tasks, depth) ==
    IF depth > RecursionLimit(all_tasks) THEN RecursionError
    ELSE IF task.parent_id = 0 THEN 0
    ELSE LET parent_task == FindTask(all_tasks, task.parent_id)
         IN  IF parent_task = None THEN RecursionError
             ELSE LET r == get_hierarchy_level_OrphanRaises(parent_task, all_tasks, depth + 1)
                  IN  IF r = RecursionError THEN RecursionError ELSE r + 1

RECURSIVE get_hierarchy_level(_, _, _)
get_hierarchy_level(task, all_tasks, depth) ==
    IF depth > RecursionLimit(all_tasks) THEN RecursionError
    ELSE IF task.parent_id = 0 THEN 0
    ELSE LET parent_task == FindTask(all_tasks, task.parent_id)
         IN  IF parent_task = None THEN 0
             ELSE LET r == get_hierarchy_level(parent_task, all_tasks, depth + 1)
                  IN  IF r = RecursionError THEN RecursionError ELSE r + 1

HierarchyLevels(all_tasks) ==
    [k \in DOMAIN all_tasks |-> get_hierarchy_level(all_tasks[k], all_tasks, 0)]

\* mutant: the sort key is the task_id alone
SortKeyLess_ByTaskIdOnly(all_tasks, levels, a, b) ==
    \/ all_tasks[a].task_id < all_tasks[b].task_id
    \/ all_tasks[a].task_id = all_tasks[b].task_id /\ a < b

\* key=lambda x: (x['_hierarchy_level'], x['task_id']); sorted() is stable
SortKeyLess(all_tasks, levels, a, b) ==
    \/ levels[a] < levels[b]
    \/ levels[a] = levels[b] /\ all_tasks[a].task_id < all_tasks[b].task_id
    \/ levels[a] = levels[b] /\ all_tasks[a].task_id = all_tasks[b].task_id /\ a < b

SortedIndices(all_tasks, levels) ==
    [p \in DOMAIN all_tasks |->
        CHOOSE a \in DOMAIN all_tasks :
            Cardinality({b \in DOMAIN all_tasks : SortKeyLess(all_tasks, levels, b, a)}) = p - 1]

\* dict semantics: d[key] = entry keeps the position of an existing key
MapHas(map, external_id) == \E k \in DOMAIN map : map[k].external_task_id = external_id

MapGet(map, external_id) ==
    map[CHOOSE k \in DOMAIN map : map[k].external_task_id = external_id]

MapPut(map, entry) ==
    IF MapHas(map, entry.external_task_id)
    THEN [k \in DOMAIN map |->
            IF map[k].external_task_id = entry.external_task_id THEN entry ELSE map[k]]
    ELSE Append(map, entry)

\* mutant: the archived tasks are left out of the map
RECURSIVE BuildTasksMap_SkipsArchived(_, _)
BuildTasksMap_SkipsArchived(entries, k) ==
    IF k = 0 THEN <<>>
    ELSE LET map == BuildTasksMap_SkipsArchived(entries, k - 1)
         IN  IF /\ Truthy(entries[k].external_task_id)
                /\ StartsWithSync(entries[k].external_task_id)
                /\ ~entries[k].archived
             THEN MapPut(map, entries[k])
             ELSE map

\* mutant: the test startswith('sync_') of line 113 is lost
RECURSIVE BuildTasksMap_NoPrefixCheck(_, _)
BuildTasksMap_NoPrefixCheck(entries, k) ==
    IF k = 0 THEN <<>>
    ELSE LET map == BuildTasksMap_NoPrefixCheck(entries, k - 1)
         IN  IF Truthy(entries[k].external_task_id)
             THEN MapPut(map, entries[k])
             ELSE map

\* lines 110-114: the dict of the tasks whose external id starts with 'sync_'
RECURSIVE BuildTasksMap(_, _)
BuildTasksMap(entries, k) ==
    IF k = 0 THEN <<>>
    ELSE LET map == BuildTasksMap(entries, k - 1)
             external_id == entries[k].external_task_id
         IN  IF Truthy(external_id) /\ StartsWithSync(external_id)
             THEN MapPut(map, entries[k])
             ELSE map

\* ------------------------------------------------------------------ state
VARIABLES azure_tasks, timecamp, pc, pass, timecamp_tasks_map,
          source_to_timecamp_map, active_external_ids, hierarchy_level,
          azure_tasks_sorted, pos, created_tasks, existing_tasks,
          archived_tasks, calls, first_calls

\* the state of the other programs of the repository (defined further down)
VARIABLES configured, AZUREDEVOPS_INSTANCES, numbered_env, instances,
          fetcher, inst_pos, projects, flattened_data, round,
          script, env, network,
          tc_entries, entry_pos, user_mapping, redmine_time_entries,
          redmine, redmine_projects, timecamp_projects, timecamp_tasks,
          open_redmine_task_ids, project_pos, redmine_tasks, timecamp_project_id,
          archive_pos

VARIABLES jira_issues, project_key, start_at, page, all_issues, page_log, returned

\* the file tasks.json, and the nodes a failed fetch left out of it
VARIABLES tasks_json, omitted

configVars == << configured, AZUREDEVOPS_INSTANCES, numbered_env, instances >>

fetchVars == << fetcher, inst_pos, projects, flattened_data, round >>

scriptVars == << script, env, network >>

exportVars == << tc_entries, entry_pos, user_mapping, redmine_time_entries >>

redmineVars ==
    << redmine, redmine_projects, timecamp_projects, timecamp_tasks,
       open_redmine_task_ids, project_pos, redmine_tasks, timecamp_project_id,
       archive_pos >>

\* everything sync_projects_new.py does not touch
pagingVars ==
    << jira_issues, project_key, start_at, page, all_issues, page_log, returned >>

\* the programs modelled last
moreVars == << pagingVars, tasks_json, omitted >>

others == << configVars, fetchVars, scriptVars, exportVars, redmineVars, moreVars >>

vars == << azure_tasks, timecamp, pc, pass, timecamp_tasks_map,
           source_to_timecamp_map, active_external_ids, hierarchy_level,
           azure_tasks_sorted, pos, created_tasks, existing_tasks,
           archived_tasks, calls, first_calls, others >>

locals == << timecamp_tasks_map, source_to_timecamp_map, active_external_ids,
             hierarchy_level, azure_tasks_sorted, pos, created_tasks,
             existing_tasks, archived_tasks >>

EmptyMap == [x \in {} |-> 0]

\* the function has not been entered: its local variables are empty
InitLocals ==
    /\ pc = "idle"
    /\ pass = 1
    /\ timecamp_tasks_map = <<>>
    /\ source_to_timecamp_map = EmptyMap
    /\ active_external_ids = {}
    /\ hierarchy_level = <<>>
    /\ azure_tasks_sorted = <<>>
    /\ pos = 0
    /\ created_tasks = 0
    /\ existing_tasks = 0
    /\ archived_tasks = 0
    /\ calls = <<>>
    /\ first_calls = <<>>

\* the other programs are not running
ConfigIdle ==
    /\ configured = <<>>
    /\ AZUREDEVOPS_INSTANCES = <<>>
    /\ numbered_env = <<>>
    /\ instances = <<>>

FetchIdle ==
    /\ fetcher = "none"
    /\ inst_pos = 0
    /\ projects = <<>>
    /\ flattened_data = <<>>
    /\ round = <<>>

ScriptsIdle ==
    /\ script = "none"
    /\ env = {}
    /\ network = <<>>

ExportIdle ==
    /\ tc_entries = <<>>
    /\ entry_pos = 0
    /\ user_mapping = EmptyMap
    /\ redmine_time_entries = <<>>

RedmineLocalsIdle ==
    /\ redmine_projects = <<>>
    /\ timecamp_projects = <<>>
    /\ timecamp_tasks = <<>>
    /\ open_redmine_task_ids = {}
    /\ project_pos = 0
    /\ redmine_tasks = <<>>
    /\ timecamp_project_id = 0
    /\ archive_pos = 0

RedmineIdle == redmine = <<>> /\ RedmineLocalsIdle

PagingLocalsIdle ==
    /\ start_at = 0
    /\ page = <<>>
    /\ all_issues = <<>>
    /\ page_log = <<>>
    /\ returned = <<>>

PagingIdle == jira_issues = <<>> /\ project_key = "" /\ PagingLocalsIdle

\* no program of the specification reads tasks.json
LoadIdle == tasks_json = <<>> /\ omitted = <<>>

MoreIdle == PagingIdle /\ LoadIdle

OthersIdle ==
    ConfigIdle /\ FetchIdle /\ ScriptsIdle /\ ExportIdle /\ RedmineIdle /\ MoreIdle

Init ==
    /\ azure_tasks \in SourceLists
    /\ timecamp \in {DestFromConfig(cfg, MaxDestId) : cfg \in DestConfigs}
    /\ InitLocals
    /\ OthersIdle

\* ------------------------------------------------- the TimeCamp API (env)
\* get_timecamp_tasks: the list the server reports
get_timecamp_tasks == timecamp

FreshTaskId == MaxOf({timecamp[k].task_id : k \in DOMAIN timecamp}) + 1

\* create_timecamp_task, the call succeeding: the server stores the task and
\* the response carries its task_id; the function adds external_task_id
create_timecamp_task(parent_id, external_task_id) ==
    DestEntry(FreshTaskId, external_task_id, parent_id, FALSE)

\* archive_timecamp_task, the call succeeding: PUT archived = 1
archive_timecamp_task(entries, task_id) ==
    [k \in DOMAIN entries |->
        IF entries[k].task_id = task_id
        THEN [entries[k] EXCEPT !.archived = TRUE]
        ELSE entries[k]]

CallRecord(op, task_id, external_id, parent_id, ok, node) ==
    [op |-> op, task_id |-> task_id, external_task_id |-> external_id,
     parent_id |-> parent_id, ok |-> ok, node |-> node]

\* ------------------------------------------- sync_hierarchical_tasks_to_timecamp
\* mutant: the mapping is looked up with the task's own id
ParentTimecampId_LooksUpTaskId(task, mapping) ==
    IF task.parent_id = 0 THEN TIMECAMP_TASK_ID
    ELSE IF task.task_id \in DOMAIN mapping /\ mapping[task.task_id] # 0
         THEN mapping[task.task_id]
         ELSE TIMECAMP_TASK_ID

\* mutant: a parent without mapping entry gives no fallback to the root task
ParentTimecampId_NoFallback(task, mapping) ==
    IF task.parent_id = 0 THEN TIMECAMP_TASK_ID
    ELSE IF task.parent_id \in DOMAIN mapping THEN mapping[task.parent_id] ELSE 0

\* lines 158-168: the parent the new task is created under
ParentTimecampId(task, mapping) ==
    IF task.parent_id = 0 THEN TIMECAMP_TASK_ID
    ELSE IF task.parent_id \in DOMAIN mapping /\ mapping[task.parent_id] # 0
         THEN mapping[task.parent_id]
         ELSE TIMECAMP_TASK_ID

\* mutant: the archived flag of the entry is not looked at
ShouldArchive_IgnoresArchived(entry, active) ==
    entry.external_task_id \notin active

\* mutant: the set of active external ids is not looked at
ShouldArchive_IgnoresActive(entry, active) ==
    ~entry.archived

\* line 194: the archive condition of one entry of timecamp_tasks_map
ShouldArchive(entry, active) ==
    entry.external_task_id \notin active /\ ~entry.archived

MapSet(mapping, key, value) ==
    [x \in DOMAIN mapping \cup {key} |-> IF x = key THEN value ELSE mapping[x]]

\* lines 102-104: tasks.json is missing, unparseable or an empty list
ReturnEmpty ==
    /\ pc = "idle"
    /\ azure_tasks = <<>>
    /\ pc' = "done"
    /\ UNCHANGED << azure_tasks, timecamp, pass, locals, calls, first_calls >>
    /\ UNCHANGED others

\* lines 145-146 on a parent cycle: RecursionError leaves the function
RaiseRecursionError ==
    /\ pc = "idle"
    /\ azure_tasks # <<>>
    /\ RecursionError \in Range(HierarchyLevels(azure_tasks))
    /\ pc' = "crashed"
    /\ timecamp_tasks_map' = BuildTasksMap(get_timecamp_tasks, Len(get_timecamp_tasks))
    /\ UNCHANGED << azure_tasks, timecamp, pass, source_to_timecamp_map,
                    active_external_ids, hierarchy_level, azure_tasks_sorted, pos,
                    created_tasks, existing_tasks, archived_tasks, calls, first_calls >>
    /\ UNCHANGED others

\* lines 102-149: load, list, build the map, compute the levels, sort
StartPass ==
    /\ pc = "idle"
    /\ azure_tasks # <<>>
    /\ timecamp_tasks_map' = BuildTasksMap(get_timecamp_tasks, Len(get_timecamp_tasks))
    /\ LET levels == HierarchyLevels(azure_tasks)
       IN  /\ RecursionError \notin Range(levels)
           /\ hierarchy_level' = levels
           /\ azure_tasks_sorted' = SortedIndices(azure_tasks, levels)
    /\ pos' = 1
    /\ pc' = "process"
    /\ UNCHANGED << azure_tasks, timecamp, pass, source_to_timecamp_map,
                    active_external_ids, created_tasks, existing_tasks,
                    archived_tasks, calls, first_calls >>
    /\ UNCHANGED others

CurrentIndex == azure_tasks_sorted[pos]

CurrentTask == azure_tasks[CurrentIndex]

InLoop == pc = "process" /\ pos <= Len(azure_tasks_sorted)

\* mutant: line 182 is lost, the new task is not put into timecamp_tasks_map
CreateTask_MapNotUpdated ==
    /\ InLoop
    /\ LET task == CurrentTask
           external_id == ExternalId(task.task_id)
           parent_timecamp_id == ParentTimecampId(task, source_to_timecamp_map)
           new_task == create_timecamp_task(parent_timecamp_id, external_id)
       IN  /\ ~MapHas(timecamp_tasks_map, external_id)
           /\ active_external_ids' = active_external_ids \cup {external_id}
           /\ timecamp' = Append(timecamp, new_task)
           /\ source_to_timecamp_map' =
                  MapSet(source_to_timecamp_map, task.task_id, new_task.task_id)
           /\ created_tasks' = created_tasks + 1
           /\ calls' = Append(calls, CallRecord("create", new_task.task_id, external_id,
                                                parent_timecamp_id, TRUE, CurrentIndex))
    /\ pos' = pos + 1
    /\ UNCHANGED << azure_tasks, pc, pass, timecamp_tasks_map, hierarchy_level,
                    azure_tasks_sorted,
                    existing_tasks, archived_tasks, first_calls >>
    /\ UNCHANGED others

\* lines 152-183: the task is not in TimeCamp and the create call succeeds
CreateTask ==
    /\ InLoop
    /\ LET task == CurrentTask
           external_id == ExternalId(task.task_id)
           parent_timecamp_id == ParentTimecampId(task, source_to_timecamp_map)
           new_task == create_timecamp_task(parent_timecamp_id, external_id)
       IN  /\ ~MapHas(timecamp_tasks_map, external_id)
           /\ active_external_ids' = active_external_ids \cup {external_id}
           /\ timecamp' = Append(timecamp, new_task)
           /\ source_to_timecamp_map' =
                  MapSet(source_to_timecamp_map, task.task_id, new_task.task_id)
           /\ timecamp_tasks_map' = MapPut(timecamp_tasks_map, new_task)
           /\ created_tasks' = created_tasks + 1
           /\ calls' = Append(calls, CallRecord("create", new_task.task_id, external_id,
                                                parent_timecamp_id, TRUE, CurrentIndex))
    /\ pos' = pos + 1
    /\ UNCHANGED << azure_tasks, pc, pass, hierarchy_level, azure_tasks_sorted,
                    existing_tasks, archived_tasks, first_calls >>
    /\ UNCHANGED others

\* mutant: the exception of the create call is not caught and ends the pass
CreateTaskFails_Aborts ==
    /\ pc = "process" /\ pos <= Len(azure_tasks_sorted)
    /\ ~MapHas(timecamp_tasks_map, ExternalId(azure_tasks[azure_tasks_sorted[pos]].task_id))
    /\ calls' = Append(calls, CallRecord("create", 0,
                           ExternalId(azure_tasks[azure_tasks_sorted[pos]].task_id),
                           0, FALSE, azure_tasks_sorted[pos]))
    /\ pc' = "crashed"
    /\ UNCHANGED << azure_tasks, timecamp, pass, locals, first_calls >>
    /\ UNCHANGED others

\* lines 175-186: the create call raises; the task gets no mapping entry
CreateTaskFails ==
    /\ InLoop
    /\ LET task == CurrentTask
           external_id == ExternalId(task.task_id)
           parent_timecamp_id == ParentTimecampId(task, source_to_timecamp_map)
       IN  /\ ~MapHas(timecamp_tasks_map, external_id)
           /\ active_external_ids' = active_external_ids \cup {external_id}
           /\ calls' = Append(calls, CallRecord("create", 0, external_id,
                                                parent_timecamp_id, FALSE, CurrentIndex))
    /\ pos' = pos + 1
    /\ UNCHANGED << azure_tasks, timecamp, pc, pass, timecamp_tasks_map,
                    source_to_timecamp_map, hierarchy_level, azure_tasks_sorted,
                    created_tasks, existing_tasks, archived_tasks, first_calls >>
    /\ UNCHANGED others

\* mutant: line 189 is lost, the existing task gets no mapping entry
ExistingTask_NoMapping ==
    /\ pc = "process" /\ pos <= Len(azure_tasks_sorted)
    /\ LET external_id == ExternalId(azure_tasks[azure_tasks_sorted[pos]].task_id)
       IN  /\ MapHas(timecamp_tasks_map, external_id)
           /\ active_external_ids' = active_external_ids \cup {external_id}
    /\ existing_tasks' = existing_tasks + 1
    /\ pos' = pos + 1
    /\ UNCHANGED << azure_tasks, timecamp, pc, pass, timecamp_tasks_map,
                    source_to_timecamp_map, hierarchy_level, azure_tasks_sorted,
                    created_tasks, archived_tasks, calls, first_calls >>
    /\ UNCHANGED others

\* mutant: the existing task is recorded in the mapping table as the root task
ExistingTask_MapsToRoot ==
    /\ pc = "process" /\ pos <= Len(azure_tasks_sorted)
    /\ LET task == azure_tasks[azure_tasks_sorted[pos]]
       IN  /\ MapHas(timecamp_tasks_map, ExternalId(task.task_id))
           /\ active_external_ids' = active_external_ids \cup {ExternalId(task.task_id)}
           /\ source_to_timecamp_map' =
                  MapSet(source_to_timecamp_map, task.task_id, TIMECAMP_TASK_ID)
    /\ existing_tasks' = existing_tasks + 1
    /\ pos' = pos + 1
    /\ UNCHANGED << azure_tasks, timecamp, pc, pass, timecamp_tasks_map,
                    hierarchy_level, azure_tasks_sorted, created_tasks,
                    archived_tasks, calls, first_calls >>
    /\ UNCHANGED others

\* lines 187-190: the task is in timecamp_tasks_map already
ExistingTask ==
    /\ InLoop
    /\ LET task == CurrentTask
           external_id == ExternalId(task.task_id)
       IN  /\ MapHas(timecamp_tasks_map, external_id)
           /\ active_external_ids' = active_external_ids \cup {external_id}
           /\ source_to_timecamp_map' =
                  MapSet(source_to_timecamp_map, task.task_id,
                         MapGet(timecamp_tasks_map, external_id).task_id)
           /\ existing_tasks' = existing_tasks + 1
    /\ pos' = pos + 1
    /\ UNCHANGED << azure_tasks, timecamp, pc, pass, timecamp_tasks_map,
                    hierarchy_level, azure_tasks_sorted, created_tasks,
                    archived_tasks, calls, first_calls >>
    /\ UNCHANGED others

\* line 192: the processing loop is over, the archive loop starts
StartArchiving ==
    /\ pc = "process"
    /\ pos > Len(azure_tasks_sorted)
    /\ pc' = "archive"
    /\ pos' = 1
    /\ UNCHANGED << azure_tasks, timecamp, pass, timecamp_tasks_map,
                    source_to_timecamp_map, active_external_ids, hierarchy_level,
                    azure_tasks_sorted, created_tasks, existing_tasks,
                    archived_tasks, calls, first_calls >>
    /\ UNCHANGED others

InArchiveLoop == pc = "archive" /\ pos <= Len(timecamp_tasks_map)

\* lines 193-198: an obsolete entry, the archive call succeeds
ArchiveTask ==
    /\ InArchiveLoop
    /\ LET timecamp_task == timecamp_tasks_map[pos]
       IN  /\ ShouldArchive(timecamp_task, active_external_ids)
           /\ timecamp' = archive_timecamp_task(timecamp, timecamp_task.task_id)
           /\ archived_tasks' = archived_tasks + 1
           /\ calls' = Append(calls, CallRecord("archive", timecamp_task.task_id,
                                                timecamp_task.external_task_id, 0, TRUE, 0))
    /\ pos' = pos + 1
    /\ UNCHANGED << azure_tasks, pc, pass, timecamp_tasks_map, source_to_timecamp_map,
                    active_external_ids, hierarchy_level, azure_tasks_sorted,
                    created_tasks, existing_tasks, first_calls >>
    /\ UNCHANGED others

\* lines 196-200: the archive call raises
ArchiveTaskFails ==
    /\ InArchiveLoop
    /\ LET timecamp_task == timecamp_tasks_map[pos]
       IN  /\ ShouldArchive(timecamp_task, active_external_ids)
           /\ calls' = Append(calls, CallRecord("archive", timecamp_task.task_id,
                                                timecamp_task.external_task_id, 0, FALSE, 0))
    /\ pos' = pos + 1
    /\ UNCHANGED << azure_tasks, timecamp, pc, pass, timecamp_tasks_map,
                    source_to_timecamp_map, active_external_ids, hierarchy_level,
                    azure_tasks_sorted, created_tasks, existing_tasks,
                    archived_tasks, first_calls >>
    /\ UNCHANGED others

\* line 194 false: the entry is active in the source or archived already
KeepTask ==
    /\ InArchiveLoop
    /\ ~ShouldArchive(timecamp_tasks_map[pos], active_external_ids)
    /\ pos' = pos + 1
    /\ UNCHANGED << azure_tasks, timecamp, pc, pass, timecamp_tasks_map,
                    source_to_timecamp_map, active_external_ids, hierarchy_level,
                    azure_tasks_sorted, created_tasks, existing_tasks,
                    archived_tasks, calls, first_calls >>
    /\ UNCHANGED others

\* lines 202-206: the pass reaches its end
Finish ==
    /\ pc = "archive"
    /\ pos > Len(timecamp_tasks_map)
    /\ pc' = "done"
    /\ UNCHANGED << azure_tasks, timecamp, pass, locals, calls, first_calls >>
    /\ UNCHANGED others

\* the script is run again on the same tasks.json (lines 265-277)
RunAgain ==
    /\ pc = "done"
    /\ pass < MaxPasses
    /\ pass' = pass + 1
    /\ pc' = "idle"
    /\ first_calls' = calls
    /\ calls' = <<>>
    /\ timecamp_tasks_map' = <<>>
    /\ source_to_timecamp_map' = EmptyMap
    /\ active_external_ids' = {}
    /\ hierarchy_level' = <<>>
    /\ azure_tasks_sorted' = <<>>
    /\ pos' = 0
    /\ created_tasks' = 0
    /\ existing_tasks' = 0
    /\ archived_tasks' = 0
    /\ UNCHANGED << azure_tasks, timecamp >>
    /\ UNCHANGED others

Next ==
    \/ ReturnEmpty
    \/ RaiseRecursionError
    \/ StartPass
    \/ CreateTask
    \/ CreateTaskFails
    \/ ExistingTask
    \/ StartArchiving
    \/ ArchiveTask
    \/ ArchiveTaskFails
    \/ KeepTask
    \/ Finish
    \/ RunAgain

Spec == Init /\ [][Next]_vars

\* The level computation alone, for the properties of get_hierarchy_level:
\* every source list, no 'sync_' task in TimeCamp, the pass up to the sort.
InitLevels ==
    /\ azure_tasks \in SourceLists
    /\ timecamp = IgnoredEntries
    /\ InitLocals
    /\ OthersIdle

NextLevels ==
    \/ ReturnEmpty
    \/ RaiseRecursionError
    \/ StartPass

SpecLevels == InitLevels /\ [][NextLevels]_vars

\* The run is killed inside the processing loop (lines 152-190), between two
\* API calls, and the script is started again on the same tasks.json: the
\* local variables are gone, the tasks created so far stay in TimeCamp.
Interrupt ==
    /\ pc = "process"
    /\ pass < MaxPasses
    /\ pass' = pass + 1
    /\ pc' = "idle"
    /\ first_calls' = calls
    /\ calls' = <<>>
    /\ timecamp_tasks_map' = <<>>
    /\ source_to_timecamp_map' = EmptyMap
    /\ active_external_ids' = {}
    /\ hierarchy_level' = <<>>
    /\ azure_tasks_sorted' = <<>>
    /\ pos' = 0
    /\ created_tasks' = 0
    /\ existing_tasks' = 0
    /\ archived_tasks' = 0
    /\ UNCHANGED << azure_tasks, timecamp >>
    /\ UNCHANGED others

\* a run that may be interrupted, followed by a run that is not: a second
\* pass is the pass after an interruption
NextInterrupt ==
    \/ ReturnEmpty
    \/ RaiseRecursionError
    \/ StartPass
    \/ CreateTask
    \/ CreateTaskFails
    \/ ExistingTask
    \/ StartArchiving
    \/ ArchiveTask
    \/ ArchiveTaskFails
    \/ KeepTask
    \/ Finish
    \/ Interrupt

SpecInterrupt == Init /\ [][NextInterrupt]_vars

\* what the fetchers leave alone, pc apart
notFetch ==
    << azure_tasks, timecamp, pass, locals, calls, first_calls, scriptVars, exportVars,
       redmineVars, moreVars >>

\* ------------------------------ fetch_azuredevops.py: _load_instances_config
\* A string is the sequence of its pieces: ":", "," and " " are the
\* characters the code looks at, any other piece is a run of other
\* characters ("https", "//dev.azure.com/myorg").  The empty sequence is the
\* empty string, and an environment variable that is not set.
MaxEntries == 2
MaxNumbered == 1

\* str.split(sep)
RECURSIVE Split(_, _)
Split(s, sep) ==
    IF s = <<>> THEN << <<>> >>
    ELSE LET rest == Split(Tail(s), sep)
         IN  IF Head(s) = sep THEN << <<>> >> \o rest
             ELSE << <<Head(s)>> \o Head(rest) >> \o Tail(rest)

\* sep.join(parts)
RECURSIVE Join(_, _)
Join(parts, sep) ==
    IF parts = <<>> THEN <<>>
    ELSE IF Len(parts) = 1 THEN parts[1]
    ELSE parts[1] \o <<sep>> \o Join(Tail(parts), sep)

\* str.strip()
RECURSIVE Strip(_)
Strip(s) ==
    IF s = <<>> THEN s
    ELSE IF Head(s) = " " THEN Strip(Tail(s))
    ELSE IF s[Len(s)] = " " THEN Strip(SubSeq(s, 1, Len(s) - 1))
    ELSE s

Instance(name, url, token) == [name |-> name, url |-> url, token |-> token]

\* the values an operator writes into the three fields of an entry
Names == {<<"Org">>}

Urls == {<<"dev.azure.com/myorg">>, <<"https", ":", "//dev.azure.com/myorg">>}

Tokens == {<<"tok">>, <<"tok", ":", "en">>}

ConfiguredLists == SeqsUpTo({Instance(n, u, t) : n \in Names, u \in Urls, t \in Tokens},
                            MaxEntries)

\* AZUREDEVOPS_INSTANCES=instance1_name:url:token,instance2_name:url:token
FormatInstances(entries) ==
    Join([k \in DOMAIN entries |->
              entries[k].name \o <<":">> \o entries[k].url \o <<":">> \o entries[k].token],
         ",")

\* AZUREDEVOPS_INSTANCE<n>_NAME, _URL, _TOKEN, each set or not
NumberedLists ==
    SeqsUpTo({Instance(n, u, t) : n \in {<<>>, <<"Org2">>},
                                  u \in {<<>>, <<"dev.azure.com/two">>},
                                  t \in {<<>>, <<"tok2">>}},
             MaxNumbered)

\* lines 255-264: one entry of AZUREDEVOPS_INSTANCES
ParseEntry(instance_config) ==
    LET parts == Split(Strip(instance_config), ":")
    IN  IF Len(parts) >= 3
        THEN << Instance(parts[1], parts[2], Join(SubSeq(parts, 3, Len(parts)), ":")) >>
        ELSE <<>>

RECURSIVE ParseEntries(_)
ParseEntries(entries) ==
    IF entries = <<>> THEN <<>>
    ELSE ParseEntry(Head(entries)) \o ParseEntries(Tail(entries))

\* lines 252-264
FromInstancesVariable(instances_config) ==
    IF instances_config = <<>> THEN <<>>
    ELSE ParseEntries(Split(instances_config, ","))

\* lines 267-286: the numbered variables, up to the first incomplete triple
RECURSIVE FromNumberedVariables(_)
FromNumberedVariables(numbered) ==
    IF numbered = <<>> THEN <<>>
    ELSE LET first == Head(numbered)
         IN  IF first.name = <<>> \/ first.url = <<>> \/ first.token = <<>>
             THEN <<>>
             ELSE <<first>> \o FromNumberedVariables(Tail(numbered))

\* AzureDevOpsFetcher.__init__ and _load_instances_config
LoadInstancesConfig ==
    /\ pc = "idle"
    /\ instances' = FromInstancesVariable(AZUREDEVOPS_INSTANCES)
                        \o FromNumberedVariables(numbered_env)
    /\ pc' = "loaded"
    /\ UNCHANGED << notFetch,
                    configured, AZUREDEVOPS_INSTANCES, numbered_env, fetchVars >>

\* sync_projects_new.py is not running
SyncIdle ==
    /\ azure_tasks = <<>>
    /\ timecamp = IgnoredEntries
    /\ InitLocals

InitConfig ==
    /\ configured \in ConfiguredLists
    /\ AZUREDEVOPS_INSTANCES = FormatInstances(configured)
    /\ numbered_env \in NumberedLists
    /\ instances = <<>>
    /\ FetchIdle
    /\ ScriptsIdle
    /\ ExportIdle
    /\ RedmineIdle
    /\ SyncIdle
    /\ MoreIdle

NextConfig == LoadInstancesConfig

SpecConfig == InitConfig /\ [][NextConfig]_vars

\* ----------------- fetch_azuredevops.py and fetch_jira.py: fetch_all_data
\* One model for the two fetchers, which differ in the keys of an instance,
\* in the form of the task ids and in the parent of an item.  An instance is
\* the dict the loader returned, a function from its keys to strings; the
\* JSON of JIRA_INSTANCES may leave any key out (lines 148-151 of
\* fetch_jira.py warn and keep the instance).  The responses of the servers
\* are chosen when the call is made.
MaxInstances == 2
MaxProjects == 1
MaxItems == 2

FetchUrls == {<<"a.example">>, <<"b.example">>, <<"c.example">>}

\* hash(url) % 1000000 and int(md5(url)[:6], 16) % 1000000 map all urls to
\* a million values: not one-to-one.  Two of the three urls of the model
\* share a value.
UrlHash(url) ==
    CASE url = <<"a.example">> -> "101"
      [] url = <<"b.example">> -> "202"
      [] url = <<"c.example">> -> "101"

\* f"org_{...}"
OrgId(url) == <<"org_", UrlHash(url)>>

Restrict(f, keys) == [k \in keys |-> f[k]]

AzureInstances ==
    {[name |-> <<"Org">>, url |-> u, token |-> <<"tok">>] : u \in FetchUrls}

JiraKeys == {"name", "url", "email", "token"}

JiraInstances ==
    {Restrict([name |-> <<"Org">>, url |-> u, email |-> <<"me">>, token |-> <<"tok">>],
              keys)
         : u \in FetchUrls, keys \in {JiraKeys} \cup {JiraKeys \ {k} : k \in JiraKeys}}

\* the arguments of the client's constructor
ClientKeys(f) == IF f = "azure" THEN {"url", "token"} ELSE {"url", "email", "token"}

ProjectKeys == {"PA", "PB"}

\* the projects get_projects returns: distinct, [] also when the call failed
ProjectLists ==
    {ps \in SeqsUpTo(ProjectKeys, MaxProjects) :
         \A a, b \in DOMAIN ps : ps[a] = ps[b] => a = b}

\* the ids of the items a server holds for a project
ItemIdsOf(project) == IF project = "PA" THEN {"1", "2"} ELSE {"3", "4"}

Item(id, state, parent, epic_link) ==
    [id |-> id, state |-> state, parent |-> parent, epic_link |-> epic_link]

MaxRelations == 2

\* _serialize_work_item: the id, System.State and the relations of a work item
WorkItem(id, state, relations) == [id |-> id, state |-> state, relations |-> relations]

HierarchyReverse == "System.LinkTypes.Hierarchy-Reverse"

HierarchyForward == "System.LinkTypes.Hierarchy-Forward"

Relation(rel, url) == [rel |-> rel, url |-> url]

\* the url of a relation ends with the id of the work item it points to
WorkItemUrl(id) == <<"https://dev.azure.com/myorg/_apis/wit/workItems", "/", id>>

\* a work item of no project of the model
FOREIGN_ITEM == "9"

\* the relations a work item carries: any one relation, to a work item of the
\* project, to a work item elsewhere, or with a url that ends with '/', and
\* longer lists of relations to work items of the project
RelationLists(siblings) ==
    LET inner == {Relation(rel, WorkItemUrl(id)) :
                     rel \in {HierarchyReverse, HierarchyForward}, id \in siblings}
        outer == {Relation(rel, WorkItemUrl(id)) :
                     rel \in {HierarchyReverse, HierarchyForward}, id \in {FOREIGN_ITEM, ""}}
    IN  SeqsUpTo(inner \cup outer, 1)
            \cup UNION {[1..n -> inner] : n \in 2..MaxRelations}

\* the serialized work items (issues) of a project: for Azure DevOps the id,
\* the state and the relations; for Jira the key, the key of the parent
\* issue and the epic link, "" where there is none, of an issue of the
\* project or of an issue elsewhere
ItemsOf(f, project) ==
    LET ids == ItemIdsOf(project)
        refs == {"", FOREIGN_ITEM} \cup ids
        all == {Item(id, "", par, epic) : id \in ids, par \in refs, epic \in refs}
    IN  IF f = "azure"
        THEN UNION {{WorkItem(id, st, rels) :
                        st \in {"Active", "Done"}, rels \in RelationLists(ids \ {id})}
                       : id \in ids}
        ELSE {item \in all : item.parent # item.id /\ item.epic_link # item.id}

ItemLists(f, project) ==
    {items \in SeqsUpTo(ItemsOf(f, project), MaxItems) :
         \A a, b \in DOMAIN items : items[a].id = items[b].id => a = b}

\* str.lower()
Lower(state) == IF state = "Done" THEN "done" ELSE IF state = "Active" THEN "active" ELSE state

\* parent_id 0 of an organisation
ROOT_PARENT == <<>>

FlatNode(name, task_id, parent_id) ==
    [name |-> name, task_id |-> task_id, parent_id |-> parent_id]

\* fetch_azuredevops.py lines 225-230: int(url.split('/')[-1]), 0 on ValueError
\* (the ids of the model are the texts of numbers, 0 is "0")
_extract_id_from_url(url) ==
    LET parts == Split(url, "/")
        last == parts[Len(parts)]
    IN  IF Len(last) = 1 /\ last[1] \in {"1", "2", "3", "4", FOREIGN_ITEM} THEN last[1] ELSE "0"

\* lines 348-357: the loop over the relations ends at the first
\* Hierarchy-Reverse relation; "" when there is none
RECURSIVE FirstHierarchyReverse(_)
FirstHierarchyReverse(relations) ==
    IF relations = <<>> THEN ""
    ELSE IF Head(relations).rel = HierarchyReverse
         THEN _extract_id_from_url(Head(relations).url)
         ELSE FirstHierarchyReverse(Tail(relations))

\* line 338
IsDone(state) == Lower(state) = "done"

\* mutant: a parent is taken whether it is among the active work items or not
AzureParentId_AnyParent(org_id, project_task_id, item, active_work_item_ids) ==
    LET parent_work_item_id == FirstHierarchyReverse(item.relations)
    IN  IF parent_work_item_id \notin {"", "0"}
        THEN org_id \o <<"_", parent_work_item_id>>
        ELSE project_task_id

\* lines 344-360: the parent_id of an active work item
AzureParentId(org_id, project_task_id, item, active_work_item_ids) ==
    LET parent_work_item_id == FirstHierarchyReverse(item.relations)
    IN  IF /\ parent_work_item_id \notin {"", "0"}
           /\ parent_work_item_id \in active_work_item_ids
        THEN org_id \o <<"_", parent_work_item_id>>
        ELSE project_task_id

\* fetch_azuredevops.py lines 325-371: the nodes of one project
AzureProjectNodes(org_id, project, work_items) ==
    LET project_task_id == org_id \o <<"_", project>>
        active_work_items == SelectSeq(work_items, LAMBDA item : ~IsDone(item.state))
        active_work_item_ids == {active_work_items[k].id : k \in DOMAIN active_work_items}
        ParentOf(item) == AzureParentId(org_id, project_task_id, item, active_work_item_ids)
    IN  << FlatNode(project, project_task_id, org_id) >>
        \o [k \in DOMAIN active_work_items |->
               FlatNode(active_work_items[k].id,
                        org_id \o <<"_", active_work_items[k].id>>,
                        ParentOf(active_work_items[k]))]

\* mutant: the parent key and the epic link of an issue are used whether the
\* project returned such an issue or not
JiraProjectNodes_AnyParent(org_id, project, issues) ==
    LET project_task_id == org_id \o <<"_proj_", project>>
        TaskIdOf(key) == project_task_id \o <<"_", key>>
        ParentOf(issue) ==
            IF issue.parent # "" THEN TaskIdOf(issue.parent)
            ELSE IF issue.epic_link # "" THEN TaskIdOf(issue.epic_link)
                 ELSE project_task_id
    IN  << FlatNode(project, project_task_id, org_id) >>
        \o [k \in DOMAIN issues |->
               FlatNode(issues[k].id, TaskIdOf(issues[k].id), ParentOf(issues[k]))]

\* fetch_jira.py lines 200-241: the nodes of one project
JiraProjectNodes(org_id, project, issues) ==
    LET project_task_id == org_id \o <<"_proj_", project>>
        TaskIdOf(key) == project_task_id \o <<"_", key>>
        keys == {issues[k].id : k \in DOMAIN issues}
        ParentOf(issue) ==
            IF issue.parent # ""
            THEN IF issue.parent \in keys THEN TaskIdOf(issue.parent) ELSE project_task_id
            ELSE IF issue.epic_link # "" /\ issue.epic_link \in keys
                 THEN TaskIdOf(issue.epic_link)
                 ELSE project_task_id
    IN  << FlatNode(project, project_task_id, org_id) >>
        \o [k \in DOMAIN issues |->
               FlatNode(issues[k].id, TaskIdOf(issues[k].id), ParentOf(issues[k]))]

ProjectNodes(f, org_id, project, items) ==
    IF f = "azure" THEN AzureProjectNodes(org_id, project, items)
    ELSE JiraProjectNodes(org_id, project, items)

\* fetch_all_data is entered: flattened_data = []
StartFetch ==
    /\ pc = "idle"
    /\ fetcher \in {"azure", "jira"}
    /\ flattened_data' = <<>>
    /\ inst_pos' = 1
    /\ pc' = "instances"
    /\ UNCHANGED << notFetch,
                    configVars, fetcher, projects, round >>

AtInstance == pc = "instances" /\ inst_pos <= Len(instances)

\* the print before the try statement reads instance_config['name']:
\* KeyError leaves fetch_all_data
NameMissing ==
    /\ AtInstance
    /\ "name" \notin DOMAIN instances[inst_pos]
    /\ pc' = "aborted"
    /\ UNCHANGED << notFetch,
                    configVars, fetchVars >>

\* the client is built, get_projects answers, the organisation is appended
BeginInstance ==
    /\ AtInstance
    /\ LET instance_config == instances[inst_pos]
       IN  /\ "name" \in DOMAIN instance_config
           /\ ClientKeys(fetcher) \subseteq DOMAIN instance_config
           /\ flattened_data' = Append(flattened_data,
                  FlatNode(instance_config.name, OrgId(instance_config.url), ROOT_PARENT))
    /\ \E ps \in ProjectLists : projects' = ps
    /\ pc' = "projects"
    /\ UNCHANGED << notFetch,
                    configVars, fetcher, inst_pos, round >>

\* a key of the instance is missing or the constructor of the client raises:
\* the except clause prints the name and the loop goes on
InstanceRaises ==
    /\ AtInstance
    /\ "name" \in DOMAIN instances[inst_pos]
    /\ inst_pos' = inst_pos + 1
    /\ UNCHANGED << notFetch, pc,
                    configVars, fetcher, projects, flattened_data, round >>

\* one round of the loop over the projects; round holds what the round
\* worked on: the project, the items the server returned for it (work_items,
\* issues) and the length of flattened_data when the round began
ProcessProject ==
    /\ pc = "projects"
    /\ projects # <<>>
    /\ \E items \in ItemLists(fetcher, Head(projects)) :
           /\ flattened_data' = flattened_data
                  \o ProjectNodes(fetcher, OrgId(instances[inst_pos].url), Head(projects), items)
           /\ round' = [project |-> Head(projects), items |-> items,
                        start |-> Len(flattened_data)]
    /\ projects' = Tail(projects)
    /\ UNCHANGED << notFetch, pc,
                    configVars, fetcher, inst_pos >>

\* an exception in the round of a project: the project was appended (lines
\* 329-333); filtering the work items and identifying their parents (lines
\* 338-360) raises, on a state or a relation url that is None; the loop that
\* appends the items (lines 363-371) looks up keys the serializer always sets
\* and does not raise. The except clause ends the instance
ProjectRaises ==
    /\ pc = "projects"
    /\ projects # <<>>
    /\ flattened_data' = flattened_data
           \o ProjectNodes(fetcher, OrgId(instances[inst_pos].url), Head(projects), <<>>)
    /\ projects' = <<>>
    /\ round' = <<>>
    /\ inst_pos' = inst_pos + 1
    /\ pc' = "instances"
    /\ UNCHANGED << notFetch,
                    configVars, fetcher >>

\* the loop over the projects is over
EndInstance ==
    /\ pc = "projects"
    /\ projects = <<>>
    /\ round' = <<>>
    /\ inst_pos' = inst_pos + 1
    /\ pc' = "instances"
    /\ UNCHANGED << notFetch,
                    configVars, fetcher, projects, flattened_data >>

\* return flattened_data
ReturnData ==
    /\ pc = "instances"
    /\ inst_pos > Len(instances)
    /\ pc' = "returned"
    /\ UNCHANGED << notFetch,
                    configVars, fetchVars >>

\* the instances are what a loader returns
InitFetch ==
    /\ fetcher \in {"azure", "jira"}
    /\ instances \in SeqsUpTo(IF fetcher = "azure" THEN AzureInstances ELSE JiraInstances,
                              MaxInstances)
    /\ configured = <<>>
    /\ AZUREDEVOPS_INSTANCES = <<>>
    /\ numbered_env = <<>>
    /\ inst_pos = 0
    /\ projects = <<>>
    /\ flattened_data = <<>>
    /\ round = <<>>
    /\ ScriptsIdle
    /\ ExportIdle
    /\ RedmineIdle
    /\ SyncIdle
    /\ MoreIdle

NextFetch ==
    \/ StartFetch
    \/ NameMissing
    \/ BeginInstance
    \/ InstanceRaises
    \/ ProcessProject
    \/ ProjectRaises
    \/ EndInstance
    \/ ReturnData

SpecFetch == InitFetch /\ [][NextFetch]_vars

\* --------------------------------------- the scripts and their configuration
\* The three scripts that talk to TimeCamp, from their start to the end of
\* the run: which configuration values they read, when, and which system
\* they have sent a request to by then.  env is the set of the values that
\* are set; network is the list of the systems that got a request.
ConfigKeys ==
    {"REDMINE_URL", "REDMINE_API_KEY", "TIMECAMP_API_TOKEN2", "TIMECAMP_TASK_ID",
     "REDMINE_ACTIVITY_ID"}

Scripts == {"sync_projects_new", "sync_projects", "export_time_entries_redmine"}

\* the credentials and the root task id a script works with
RequiredConfig(s) ==
    CASE s = "sync_projects_new" -> {"TIMECAMP_API_TOKEN2", "TIMECAMP_TASK_ID"}
      [] s = "sync_projects" ->
             {"REDMINE_URL", "REDMINE_API_KEY", "TIMECAMP_API_TOKEN2", "TIMECAMP_TASK_ID"}
      [] s = "export_time_entries_redmine" ->
             {"REDMINE_URL", "REDMINE_API_KEY", "TIMECAMP_API_TOKEN2"}

notScripts ==
    << azure_tasks, timecamp, pass, locals, calls, first_calls, configVars, fetchVars,
       exportVars, redmineVars, moreVars >>

\* sync_projects_new.py line 269: the preview reads tasks.json only
ShowSyncPreview ==
    /\ script = "sync_projects_new"
    /\ pc = "idle"
    /\ pc' = "previewed"
    /\ UNCHANGED << notScripts, scriptVars >>

\* sync_projects_new.py lines 272-277
RunNewSync ==
    /\ script = "sync_projects_new"
    /\ pc = "previewed"
    /\ IF {"TIMECAMP_API_TOKEN2", "TIMECAMP_TASK_ID"} \subseteq env
       THEN network' = Append(network, "timecamp")
       ELSE network' = network
    /\ pc' = "finished"
    /\ UNCHANGED << notScripts, script, env >>

\* sync_projects.py line 91, get_redmine_projects: the client is built from
\* REDMINE_URL and REDMINE_API_KEY, None when not set.  What the library
\* does with None is not in this repository; it is taken to fail before it
\* sends anything.
GetRedmineProjects ==
    /\ script = "sync_projects"
    /\ pc = "idle"
    /\ IF {"REDMINE_URL", "REDMINE_API_KEY"} \subseteq env
       THEN network' = Append(network, "redmine") /\ pc' = "projects_listed"
       ELSE network' = network /\ pc' = "aborted"
    /\ UNCHANGED << notScripts, script, env >>

\* sync_projects.py line 92, get_timecamp_projects: the request carries
\* 'Bearer None' when the token is not set, raise_for_status ends the run
GetTimecampProjects ==
    /\ script = "sync_projects"
    /\ pc = "projects_listed"
    /\ network' = Append(network, "timecamp")
    /\ pc' = IF "TIMECAMP_API_TOKEN2" \in env THEN "tasks_listed" ELSE "aborted"
    /\ UNCHANGED << notScripts, script, env >>

\* sync_projects.py lines 94-145: the creates carry TIMECAMP_TASK_ID as it is
SyncProjectsAndTasks ==
    /\ script = "sync_projects"
    /\ pc = "tasks_listed"
    /\ \E requests \in SeqsUpTo({"redmine", "timecamp"}, 1) :
           network' = network \o requests
    /\ pc' = "finished"
    /\ UNCHANGED << notScripts, script, env >>

\* export_time_entries_redmine.py lines 12-14: cfg['REDMINE_URL'] and
\* cfg['REDMINE_API_KEY'] raise KeyError when the value is not in .env
RedmineInit ==
    /\ script = "export_time_entries_redmine"
    /\ pc = "idle"
    /\ pc' = IF {"REDMINE_URL", "REDMINE_API_KEY"} \subseteq env
             THEN "connected" ELSE "aborted"
    /\ UNCHANGED << notScripts, scriptVars >>

\* lines 15-29, create_user_mapping: the users of Redmine are requested, then
\* API.get_users reads cfg['TIMECAMP_API_TOKEN2']
CreateUserMapping ==
    /\ script = "export_time_entries_redmine"
    /\ pc = "connected"
    /\ IF "TIMECAMP_API_TOKEN2" \in env
       THEN network' = network \o <<"redmine", "timecamp">> /\ pc' = "mapped"
       ELSE network' = Append(network, "redmine") /\ pc' = "aborted"
    /\ UNCHANGED << notScripts, script, env >>

\* lines 89-99 and 206: the entries are requested and exported; line 54
\* reads cfg['REDMINE_ACTIVITY_ID'] for the first entry that is exported
HandleTimeEntries ==
    /\ script = "export_time_entries_redmine"
    /\ pc = "mapped"
    /\ network' = Append(network, "timecamp")
    /\ \E exported \in BOOLEAN :
           pc' = IF exported /\ "REDMINE_ACTIVITY_ID" \notin env
                 THEN "aborted" ELSE "finished"
    /\ UNCHANGED << notScripts, script, env >>

InitScripts ==
    /\ script \in Scripts
    /\ env \in SUBSET ConfigKeys
    /\ network = <<>>
    /\ ConfigIdle
    /\ FetchIdle
    /\ ExportIdle
    /\ RedmineIdle
    /\ SyncIdle
    /\ MoreIdle

NextScripts ==
    \/ ShowSyncPreview
    \/ RunNewSync
    \/ GetRedmineProjects
    \/ GetTimecampProjects
    \/ SyncProjectsAndTasks
    \/ RedmineInit
    \/ CreateUserMapping
    \/ HandleTimeEntries

SpecScripts == InitScripts /\ [][NextScripts]_vars

\* ------------------------- export_time_entries_redmine.py: the time entries
\* An entry of TimeCamp is the dict of the API, a function from its keys;
\* addons_external_id may be left out.  Its value is a string, written as
\* the sequence of its pieces with "_" as a piece of its own.
MaxTimeEntries == 3

ExternalIdStrings ==
    { <<"redmine", "_", "task", "_", "5">>,
      <<"redmine", "_", "7">>,
      <<"redmine", "_", "task", "_", "x5">>,
      <<"redmine", "_", "abc">>,
      <<"redmine", "_">>,
      <<"redmine">>,
      <<"sync", "_", "5">>,
      <<>> }

UserIds == {1, 2}

TimeEntry(id, user_id) ==
    [id |-> id, user_id |-> user_id, duration |-> 3600, date |-> "2024-01-01",
     description |-> "work"]

WithExternalId(entry, external_id) ==
    [k \in DOMAIN entry \cup {"addons_external_id"} |->
        IF k = "addons_external_id" THEN external_id ELSE entry[k]]

\* the lists get_time_entries returns; the id of an entry is its position
EntryLists ==
    {es \in SeqsUpTo({TimeEntry(0, u) : u \in UserIds}
                         \cup {WithExternalId(TimeEntry(0, u), x) :
                                   u \in UserIds, x \in ExternalIdStrings},
                     MaxTimeEntries) : TRUE}

Numbered(es) ==
    [k \in DOMAIN es |-> [f \in DOMAIN es[k] |-> IF f = "id" THEN k ELSE es[k][f]]]

\* str.startswith(prefix)
StartsWith(str, prefix) ==
    Len(str) >= Len(prefix) /\ SubSeq(str, 1, Len(prefix)) = prefix

ValueError == -1

\* int(text) for the texts of the model
ToInt(text) ==
    CASE text = <<"5">> -> 5
      [] text = <<"7">> -> 7
      [] OTHER -> ValueError

\* lines 81-87: extract_id_from_addons_external_id
extract_id_from_addons_external_id(addons_external_id) ==
    LET parts == Split(addons_external_id, "_")
        last == parts[Len(parts)]
    IN  IF StartsWith(addons_external_id, <<"redmine", "_", "task", "_">>)
        THEN IF ToInt(last) = ValueError THEN <<ValueError, "">> ELSE <<ToInt(last), "issue">>
        ELSE IF StartsWith(addons_external_id, <<"redmine", "_">>)
        THEN IF ToInt(last) = ValueError THEN <<ValueError, "">> ELSE <<ToInt(last), "project">>
        ELSE <<ValueError, "">>

\* mutant: the ValueError of line 37 is not caught
EntryOutcome_ValueErrorEscapes(data, mapping) ==
    IF \/ "addons_external_id" \notin DOMAIN data
       \/ ~StartsWith(data.addons_external_id, <<"redmine", "_">>)
    THEN "ignored"
    ELSE IF extract_id_from_addons_external_id(data.addons_external_id)[1] = ValueError
    THEN "error"
    ELSE IF data.user_id \notin DOMAIN mapping \/ mapping[data.user_id] = 0
    THEN "ignored"
    ELSE "create"

\* lines 32-47: what create_time_entry does with an entry
EntryOutcome(data, mapping) ==
    IF \/ "addons_external_id" \notin DOMAIN data
       \/ ~StartsWith(data.addons_external_id, <<"redmine", "_">>)
    THEN "ignored"
    ELSE IF extract_id_from_addons_external_id(data.addons_external_id)[1] = ValueError
    THEN "ignored"
    ELSE IF data.user_id \notin DOMAIN mapping \/ mapping[data.user_id] = 0
    THEN "ignored"
    ELSE "create"

\* lines 49-62: the time entry sent to Redmine (hours is duration / 3600)
RedmineTimeEntry(data, mapping) ==
    LET extracted == extract_id_from_addons_external_id(data.addons_external_id)
    IN  [spent_on |-> data.date, hours |-> data.duration \div 3600, tc |-> data.id,
         user_id |-> mapping[data.user_id],
         issue_id |-> IF extracted[2] = "issue" THEN extracted[1] ELSE 0,
         project_id |-> IF extracted[2] = "project" THEN extracted[1] ELSE 0]

notExport ==
    << azure_tasks, timecamp, pass, locals, calls, first_calls, configVars, fetchVars,
       scriptVars, redmineVars, moreVars >>

\* lines 90, 107-124: the dates on the command line are refused
DateRangeRejected ==
    /\ script = "export_time_entries_redmine"
    /\ pc = "idle"
    /\ pc' = "exited"
    /\ UNCHANGED << notExport, exportVars >>

\* lines 90-92: the entries of the date range are requested
GetTimeEntries ==
    /\ script = "export_time_entries_redmine"
    /\ pc = "idle"
    /\ entry_pos' = 1
    /\ pc' = "export"
    /\ UNCHANGED << notExport, tc_entries, user_mapping, redmine_time_entries >>

AtEntry == pc = "export" /\ entry_pos <= Len(tc_entries)

\* lines 32-47: the entry is left out
IgnoreEntry ==
    /\ AtEntry
    /\ EntryOutcome(tc_entries[entry_pos], user_mapping) = "ignored"
    /\ entry_pos' = entry_pos + 1
    /\ UNCHANGED << notExport, pc, tc_entries, user_mapping, redmine_time_entries >>

\* mutant: an entry whose [tc:id] comment Redmine holds already is not sent
CreateTimeEntry_Deduplicates ==
    /\ pc = "export" /\ entry_pos <= Len(tc_entries)
    /\ EntryOutcome(tc_entries[entry_pos], user_mapping) = "create"
    /\ "REDMINE_ACTIVITY_ID" \in env
    /\ redmine_time_entries' =
           IF \E r \in DOMAIN redmine_time_entries :
                  redmine_time_entries[r].tc = tc_entries[entry_pos].id
           THEN redmine_time_entries
           ELSE Append(redmine_time_entries,
                       RedmineTimeEntry(tc_entries[entry_pos], user_mapping))
    /\ entry_pos' = entry_pos + 1
    /\ UNCHANGED << notExport, pc, tc_entries, user_mapping >>

\* lines 49-66: the entry is sent to Redmine
CreateTimeEntry ==
    /\ AtEntry
    /\ EntryOutcome(tc_entries[entry_pos], user_mapping) = "create"
    /\ "REDMINE_ACTIVITY_ID" \in env
    /\ redmine_time_entries' = Append(redmine_time_entries,
                              RedmineTimeEntry(tc_entries[entry_pos], user_mapping))
    /\ entry_pos' = entry_pos + 1
    /\ UNCHANGED << notExport, pc, tc_entries, user_mapping >>

\* an exception leaves create_time_entry and handle_time_entries, which
\* catch none: cfg['REDMINE_ACTIVITY_ID'] of line 54, the request of line 64
CreateTimeEntryRaises ==
    /\ AtEntry
    /\ EntryOutcome(tc_entries[entry_pos], user_mapping) \in {"create", "error"}
    /\ pc' = "aborted"
    /\ UNCHANGED << notExport, exportVars >>

\* line 99: the loop is over
FinishExport ==
    /\ pc = "export"
    /\ entry_pos > Len(tc_entries)
    /\ pc' = "finished"
    /\ UNCHANGED << notExport, exportVars >>

\* Redmine.__init__ has run: the user mapping is built
InitExport ==
    /\ tc_entries \in {Numbered(es) : es \in EntryLists}
    /\ entry_pos = 0
    /\ user_mapping \in {[u \in D |-> 100 + u] : D \in SUBSET UserIds}
    /\ redmine_time_entries = <<>>
    /\ script = "export_time_entries_redmine"
    /\ env \in {ConfigKeys, ConfigKeys \ {"REDMINE_ACTIVITY_ID"}}
    /\ network = <<>>
    /\ ConfigIdle
    /\ FetchIdle
    /\ RedmineIdle
    /\ SyncIdle
    /\ MoreIdle

NextExport ==
    \/ DateRangeRejected
    \/ GetTimeEntries
    \/ IgnoreEntry
    \/ CreateTimeEntry
    \/ CreateTimeEntryRaises
    \/ FinishExport

SpecExport == InitExport /\ [][NextExport]_vars

\* lines 200-208: the script is started again with the same date range;
\* TimeCamp returns the same entries, Redmine holds what it was sent
ExportAgain ==
    /\ script = "export_time_entries_redmine"
    /\ pc = "finished"
    /\ pass < MaxPasses
    /\ pass' = pass + 1
    /\ entry_pos' = 0
    /\ pc' = "idle"
    /\ UNCHANGED << azure_tasks, timecamp, locals, calls, first_calls, configVars,
                    fetchVars, scriptVars, redmineVars, moreVars, tc_entries,
                    user_mapping, redmine_time_entries >>

NextExportTwice == NextExport \/ ExportAgain

SpecExportTwice == InitExport /\ [][NextExportTwice]_vars

\* ------------------------------------ sync_projects.py: sync_projects_and_tasks
\* Redmine is the source: its projects with their status and its open
\* issues, each in a project.  TimeCamp is the list of tasks of the other
\* model, the tags being 'redmine_<project id>' and 'redmine_task_<issue id>'.
\* No call is wrapped in try/except: an exception ends the run.
MaxRedmineId == 2

RedmineIds == 1..MaxRedmineId

\* status 1 is an active project, 5 a closed one, 0 stands for no project
RedmineSources ==
    {[projects |-> SelectSeq([id \in RedmineIds |-> [id |-> id, status |-> st[id]]],
                             LAMBDA project : project.status # 0),
      issues |-> {[id |-> i, project_id |-> of[i]] : i \in {j \in RedmineIds : of[j] # 0}}]
         : st \in [RedmineIds -> {0, 1, 5}], of \in [RedmineIds -> 0..MaxRedmineId]}

RedmineTag(kind, id) ==
    [prefix |-> IF kind = "task" THEN "redmine_task_" ELSE "redmine_", id |-> id]

RedmineDestConfigs == [{"task", "project"} \X RedmineIds -> {"absent", "active", "archived"}]

\* the tasks of TimeCamp before the run: a task without external id, a
\* 'sync_' task, and the tagged tasks of the configuration, no external id
\* twice
RECURSIVE RedmineDestFromConfig(_, _)
RedmineDestFromConfig(cfg, todo) ==
    IF todo = {}
    THEN << DestEntry(1, NoExternalId, TIMECAMP_TASK_ID, FALSE),
            DestEntry(3, ExternalId(1), TIMECAMP_TASK_ID, FALSE) >>
    ELSE LET key == CHOOSE k \in todo :
                        \A other \in todo :
                            \/ k[2] < other[2]
                            \/ k[2] = other[2] /\ (k[1] = "project" \/ other[1] = "task")
             rest == RedmineDestFromConfig(cfg, todo \ {key})
         IN  IF cfg[key] = "absent" THEN rest
             ELSE Append(rest, DestEntry(20 + Len(rest), RedmineTag(key[1], key[2]),
                                         TIMECAMP_TASK_ID, cfg[key] = "archived"))

\* mutant: startswith('redmine_') is tested first
Classify_ProjectFirst(external_id) ==
    IF ~Truthy(external_id) THEN "none"
    ELSE IF external_id.prefix \in {"redmine_", "redmine_task_"} THEN "project"
    ELSE "none"

\* lines 98-103: 'redmine_task_...' also starts with 'redmine_', the order
\* of the two tests decides
Classify(external_id) ==
    IF ~Truthy(external_id) THEN "none"
    ELSE IF external_id.prefix = "redmine_task_" THEN "task"
    ELSE IF external_id.prefix \in {"redmine_", "redmine_task_"} THEN "project"
    ELSE "none"

\* lines 94-103: the dict of the entries of one kind, keyed by external id
RECURSIVE BuildRedmineMap(_, _, _)
BuildRedmineMap(timecamp_entries, kind, k) ==
    IF k = 0 THEN <<>>
    ELSE LET map == BuildRedmineMap(timecamp_entries, kind, k - 1)
         IN  IF Classify(timecamp_entries[k].external_task_id) = kind
             THEN MapPut(map, timecamp_entries[k])
             ELSE map

\* redmine.issue.filter(project_id=..., status_id='open')
get_redmine_tasks(project_id) ==
    LET ids == {issue.id : issue \in {i \in redmine.issues : i.project_id = project_id}}
    IN  SelectSeq([id \in RedmineIds |-> id], LAMBDA id : id \in ids)

notRedmine ==
    << azure_tasks, pass, locals, first_calls, configVars, fetchVars, scriptVars,
       exportVars, moreVars >>

\* lines 91-105: the active projects, the tasks of TimeCamp, the two dicts
ListProjectsAndTasks ==
    /\ redmine # <<>>
    /\ pc = "idle"
    /\ redmine_projects' = SelectSeq(redmine.projects, LAMBDA project : project.status = 1)
    /\ timecamp_projects' = BuildRedmineMap(timecamp, "project", Len(timecamp))
    /\ timecamp_tasks' = BuildRedmineMap(timecamp, "task", Len(timecamp))
    /\ open_redmine_task_ids' = {}
    /\ project_pos' = 1
    /\ pc' = "projects"
    /\ UNCHANGED << notRedmine, timecamp, calls, redmine, redmine_tasks,
                    timecamp_project_id, archive_pos >>

AtProject == pc = "projects" /\ project_pos <= Len(redmine_projects)

\* lines 108-112, 118: the project is not in TimeCamp, the create call succeeds
CreateProject ==
    /\ AtProject
    /\ LET redmine_project == redmine_projects[project_pos]
           external_project_id == RedmineTag("project", redmine_project.id)
           new_project == create_timecamp_task(TIMECAMP_TASK_ID, external_project_id)
       IN  /\ ~MapHas(timecamp_projects, external_project_id)
           /\ timecamp' = Append(timecamp, new_project)
           /\ timecamp_project_id' = new_project.task_id
           /\ calls' = Append(calls, CallRecord("create", new_project.task_id,
                                  external_project_id, TIMECAMP_TASK_ID, TRUE, 0))
           /\ redmine_tasks' = get_redmine_tasks(redmine_project.id)
    /\ pc' = "issues"
    /\ UNCHANGED << notRedmine, redmine, redmine_projects, timecamp_projects,
                    timecamp_tasks, open_redmine_task_ids, project_pos, archive_pos >>

\* lines 113-115, 118: the project is in TimeCamp already
ProjectExists ==
    /\ AtProject
    /\ LET redmine_project == redmine_projects[project_pos]
           external_project_id == RedmineTag("project", redmine_project.id)
       IN  /\ MapHas(timecamp_projects, external_project_id)
           /\ timecamp_project_id' = MapGet(timecamp_projects, external_project_id).task_id
           /\ redmine_tasks' = get_redmine_tasks(redmine_project.id)
    /\ pc' = "issues"
    /\ UNCHANGED << notRedmine, timecamp, calls, redmine, redmine_projects,
                    timecamp_projects, timecamp_tasks, open_redmine_task_ids,
                    project_pos, archive_pos >>

\* line 111 raises: the run ends there
CreateProjectRaises ==
    /\ AtProject
    /\ ~MapHas(timecamp_projects, RedmineTag("project", redmine_projects[project_pos].id))
    /\ calls' = Append(calls, CallRecord("create", 0,
                           RedmineTag("project", redmine_projects[project_pos].id),
                           TIMECAMP_TASK_ID, FALSE, 0))
    /\ pc' = "aborted"
    /\ UNCHANGED << notRedmine, timecamp, redmineVars >>

\* line 118, get_redmine_tasks, raises: the run ends there
ProjectRoundRaises ==
    /\ AtProject
    /\ pc' = "aborted"
    /\ UNCHANGED << notRedmine, timecamp, calls, redmineVars >>

AtIssue == pc = "issues" /\ redmine_tasks # <<>>

\* lines 119-124: the issue is open and not in TimeCamp, the create call succeeds
CreateIssueTask ==
    /\ AtIssue
    /\ LET external_task_id == RedmineTag("task", Head(redmine_tasks))
           new_task == create_timecamp_task(timecamp_project_id, external_task_id)
       IN  /\ ~MapHas(timecamp_tasks, external_task_id)
           /\ open_redmine_task_ids' = open_redmine_task_ids \cup {external_task_id}
           /\ timecamp' = Append(timecamp, new_task)
           /\ calls' = Append(calls, CallRecord("create", new_task.task_id,
                                  external_task_id, timecamp_project_id, TRUE, 0))
    /\ redmine_tasks' = Tail(redmine_tasks)
    /\ UNCHANGED << notRedmine, pc, redmine, redmine_projects, timecamp_projects,
                    timecamp_tasks, project_pos, timecamp_project_id, archive_pos >>

\* lines 119-126: the issue is in TimeCamp already
IssueTaskExists ==
    /\ AtIssue
    /\ LET external_task_id == RedmineTag("task", Head(redmine_tasks))
       IN  /\ MapHas(timecamp_tasks, external_task_id)
           /\ open_redmine_task_ids' = open_redmine_task_ids \cup {external_task_id}
    /\ redmine_tasks' = Tail(redmine_tasks)
    /\ UNCHANGED << notRedmine, timecamp, calls, pc, redmine, redmine_projects,
                    timecamp_projects, timecamp_tasks, project_pos, timecamp_project_id,
                    archive_pos >>

\* mutant: the exception is caught and the loop goes on with the next issue
CreateIssueTaskRaises_Continues ==
    /\ pc = "issues" /\ redmine_tasks # <<>>
    /\ ~MapHas(timecamp_tasks, RedmineTag("task", Head(redmine_tasks)))
    /\ calls' = Append(calls, CallRecord("create", 0, RedmineTag("task", Head(redmine_tasks)),
                                        timecamp_project_id, FALSE, 0))
    /\ open_redmine_task_ids' =
           open_redmine_task_ids \cup {RedmineTag("task", Head(redmine_tasks))}
    /\ redmine_tasks' = Tail(redmine_tasks)
    /\ UNCHANGED << notRedmine, timecamp, pc, redmine, redmine_projects, timecamp_projects,
                    timecamp_tasks, project_pos, timecamp_project_id, archive_pos >>

\* line 124 raises: the run ends there
CreateIssueTaskRaises ==
    /\ AtIssue
    /\ ~MapHas(timecamp_tasks, RedmineTag("task", Head(redmine_tasks)))
    /\ calls' = Append(calls, CallRecord("create", 0, RedmineTag("task", Head(redmine_tasks)),
                                        timecamp_project_id, FALSE, 0))
    /\ pc' = "aborted"
    /\ UNCHANGED << notRedmine, timecamp, redmineVars >>

\* the issues of the project are done
NextProject ==
    /\ pc = "issues"
    /\ redmine_tasks = <<>>
    /\ project_pos' = project_pos + 1
    /\ pc' = "projects"
    /\ UNCHANGED << notRedmine, timecamp, calls, redmine, redmine_projects,
                    timecamp_projects, timecamp_tasks, open_redmine_task_ids,
                    redmine_tasks, timecamp_project_id, archive_pos >>

\* line 130: the loop over timecamp_tasks starts
StartArchivingTasks ==
    /\ pc = "projects"
    /\ project_pos > Len(redmine_projects)
    /\ archive_pos' = 1
    /\ pc' = "archive_tasks"
    /\ UNCHANGED << notRedmine, timecamp, calls, redmine, redmine_projects,
                    timecamp_projects, timecamp_tasks, open_redmine_task_ids,
                    project_pos, redmine_tasks, timecamp_project_id >>

\* lines 132-134
ShouldArchiveTask(timecamp_task, open_ids) ==
    /\ timecamp_task.external_task_id.prefix = "redmine_task_"
    /\ timecamp_task.external_task_id \notin open_ids
    /\ ~timecamp_task.archived

\* line 139
active_redmine_project_ids ==
    {RedmineTag("project", redmine_projects[k].id) : k \in DOMAIN redmine_projects}

\* line 141
ShouldArchiveProject(timecamp_project, active_ids) ==
    timecamp_project.external_task_id \notin active_ids /\ ~timecamp_project.archived

\* the dict the archive loop is in, and whether its entry is to be archived
ArchiveMap == IF pc = "archive_tasks" THEN timecamp_tasks ELSE timecamp_projects

InRedmineArchiveLoop ==
    pc \in {"archive_tasks", "archive_projects"} /\ archive_pos <= Len(ArchiveMap)

ArchiveDue ==
    IF pc = "archive_tasks"
    THEN ShouldArchiveTask(timecamp_tasks[archive_pos], open_redmine_task_ids)
    ELSE ShouldArchiveProject(timecamp_projects[archive_pos], active_redmine_project_ids)

\* lines 135-136 and 142-143: archive_timecamp_project succeeds
ArchiveRedmineEntry ==
    /\ InRedmineArchiveLoop
    /\ ArchiveDue
    /\ timecamp' = archive_timecamp_task(timecamp, ArchiveMap[archive_pos].task_id)
    /\ calls' = Append(calls, CallRecord("archive", ArchiveMap[archive_pos].task_id,
                           ArchiveMap[archive_pos].external_task_id, 0, TRUE, 0))
    /\ archive_pos' = archive_pos + 1
    /\ UNCHANGED << notRedmine, pc, redmine, redmine_projects, timecamp_projects,
                    timecamp_tasks, open_redmine_task_ids, project_pos, redmine_tasks,
                    timecamp_project_id >>

\* line 136 or 143 raises: the run ends there
ArchiveRedmineEntryRaises ==
    /\ InRedmineArchiveLoop
    /\ ArchiveDue
    /\ calls' = Append(calls, CallRecord("archive", ArchiveMap[archive_pos].task_id,
                           ArchiveMap[archive_pos].external_task_id, 0, FALSE, 0))
    /\ pc' = "aborted"
    /\ UNCHANGED << notRedmine, timecamp, redmineVars >>

\* the entry is open or active in Redmine, or archived already
KeepRedmineEntry ==
    /\ InRedmineArchiveLoop
    /\ ~ArchiveDue
    /\ archive_pos' = archive_pos + 1
    /\ UNCHANGED << notRedmine, timecamp, calls, pc, redmine, redmine_projects,
                    timecamp_projects, timecamp_tasks, open_redmine_task_ids,
                    project_pos, redmine_tasks, timecamp_project_id >>

\* line 140: the loop over timecamp_projects starts
StartArchivingProjects ==
    /\ pc = "archive_tasks"
    /\ archive_pos > Len(timecamp_tasks)
    /\ archive_pos' = 1
    /\ pc' = "archive_projects"
    /\ UNCHANGED << notRedmine, timecamp, calls, redmine, redmine_projects,
                    timecamp_projects, timecamp_tasks, open_redmine_task_ids,
                    project_pos, redmine_tasks, timecamp_project_id >>

\* line 145
FinishRedmineSync ==
    /\ pc = "archive_projects"
    /\ archive_pos > Len(timecamp_projects)
    /\ pc' = "finished"
    /\ UNCHANGED << notRedmine, timecamp, calls, redmineVars >>

InitRedmine ==
    /\ redmine \in RedmineSources
    /\ timecamp \in {RedmineDestFromConfig(cfg, DOMAIN cfg) : cfg \in RedmineDestConfigs}
    /\ RedmineLocalsIdle
    /\ azure_tasks = <<>>
    /\ InitLocals
    /\ ConfigIdle
    /\ FetchIdle
    /\ ScriptsIdle
    /\ ExportIdle
    /\ MoreIdle

NextRedmine ==
    \/ ListProjectsAndTasks
    \/ CreateProject
    \/ ProjectExists
    \/ CreateProjectRaises
    \/ ProjectRoundRaises
    \/ CreateIssueTask
    \/ IssueTaskExists
    \/ CreateIssueTaskRaises
    \/ NextProject
    \/ StartArchivingTasks
    \/ ArchiveRedmineEntry
    \/ ArchiveRedmineEntryRaises
    \/ KeepRedmineEntry
    \/ StartArchivingProjects
    \/ FinishRedmineSync

SpecRedmine == InitRedmine /\ [][NextRedmine]_vars

\* --------------------------------- fetch_jira.py: get_issues_for_project
\* The issues of a project are read page by page.  The server holds the list
\* jira_issues, which does not change while it is read, and answers a request
\* with the issues from startAt on, at most maxResults of them.  A request
\* may raise; the except clause then returns [].
MaxIssues == 6

\* maxResults, 100 in the source; the pages of the model hold 2 issues
max_results == 2

Min(a, b) == IF a < b THEN a ELSE b

\* lines 91-124: the serialized issue keeps the key
_serialize_issue(issue) == Item(issue, "", "", "")

\* jira.search_issues(..., startAt, maxResults); page is the variable
\* issues of the source
search_issues(server_issues, startAt, maxResults) ==
    SubSeq(server_issues, startAt + 1, Min(startAt + maxResults, Len(server_issues)))

notPaging ==
    << azure_tasks, timecamp, pass, locals, calls, first_calls, configVars, fetchVars,
       scriptVars, exportVars, redmineVars, tasks_json, omitted >>

\* lines 52-54
StartPaging ==
    /\ pc = "idle"
    /\ project_key # ""
    /\ all_issues' = <<>>
    /\ start_at' = 0
    /\ pc' = "request"
    /\ UNCHANGED << notPaging, jira_issues, project_key, page, page_log, returned >>

\* lines 57-62: the request is answered
SearchIssues ==
    /\ pc = "request"
    /\ page' = search_issues(jira_issues, start_at, max_results)
    /\ page_log' = Append(page_log, Len(page'))
    /\ pc' = "page"
    /\ UNCHANGED << notPaging, jira_issues, project_key, start_at, all_issues, returned >>

\* lines 57-62, 76-78: the request raises, [] is returned
SearchIssuesRaises ==
    /\ pc = "request"
    /\ page_log' = Append(page_log, -1)
    /\ returned' = <<>>
    /\ pc' = "returned"
    /\ UNCHANGED << notPaging, jira_issues, project_key, start_at, page, all_issues >>

\* lines 64-65, 74
EmptyPage ==
    /\ pc = "page"
    /\ page = <<>>
    /\ returned' = all_issues
    /\ pc' = "returned"
    /\ UNCHANGED << notPaging, jira_issues, project_key, start_at, page, all_issues,
                    page_log >>

\* mutant: a full page ends the loop as a short one does
FullPage_Stops ==
    /\ pc = "page"
    /\ page # <<>>
    /\ Len(page) >= max_results
    /\ all_issues' = all_issues \o [k \in DOMAIN page |-> _serialize_issue(page[k])]
    /\ returned' = all_issues'
    /\ pc' = "returned"
    /\ UNCHANGED << notPaging, jira_issues, project_key, start_at, page, page_log >>

\* lines 67-72: the page is full, the next one is asked for
FullPage ==
    /\ pc = "page"
    /\ page # <<>>
    /\ Len(page) >= max_results
    /\ all_issues' = all_issues \o [k \in DOMAIN page |-> _serialize_issue(page[k])]
    /\ start_at' = start_at + max_results
    /\ pc' = "request"
    /\ UNCHANGED << notPaging, jira_issues, project_key, page, page_log, returned >>

\* lines 67-70, 74: the page is short, it is the last one
ShortPage ==
    /\ pc = "page"
    /\ page # <<>>
    /\ Len(page) < max_results
    /\ all_issues' = all_issues \o [k \in DOMAIN page |-> _serialize_issue(page[k])]
    /\ returned' = all_issues'
    /\ pc' = "returned"
    /\ UNCHANGED << notPaging, jira_issues, project_key, start_at, page, page_log >>

InitPaging ==
    /\ \E n \in 0..MaxIssues : jira_issues = [k \in 1..n |-> k]
    /\ project_key \in ProjectKeys
    /\ PagingLocalsIdle
    /\ ConfigIdle
    /\ FetchIdle
    /\ ScriptsIdle
    /\ ExportIdle
    /\ RedmineIdle
    /\ LoadIdle
    /\ SyncIdle

NextPaging ==
    \/ StartPaging
    \/ SearchIssues
    \/ SearchIssuesRaises
    \/ EmptyPage
    \/ FullPage
    \/ ShortPage

SpecPaging == InitPaging /\ [][NextPaging]_vars

\* the code runs on: a step that can be taken is taken
SpecPagingFair == SpecPaging /\ WF_vars(NextPaging)

\* ------------------------------- sync_projects_new.py: load_tasks_from_json
\* The pass with its first line, the reading of tasks.json.  The file is
\* missing, or holds a text that json.load refuses, or holds a list; value is
\* what the text holds as far as it can be read.
MaxFileTasks == 1

TaskFiles ==
    {[exists |-> e, valid |-> v, value |-> l] :
         e \in BOOLEAN, v \in BOOLEAN, l \in SeqsUpTo(SourceNode, MaxFileTasks)}

\* mutant: the text is taken as far as it can be read
load_tasks_from_json_ReadsPrefix(file) ==
    IF ~file.exists THEN <<>> ELSE file.value

\* lines 13-23: FileNotFoundError and JSONDecodeError give []
load_tasks_from_json(file) ==
    IF ~file.exists THEN <<>>
    ELSE IF ~file.valid THEN <<>>
    ELSE file.value

\* line 102
LoadTasksFromJson ==
    /\ pc = "start"
    /\ azure_tasks' = load_tasks_from_json(tasks_json)
    /\ pc' = "idle"
    /\ UNCHANGED << timecamp, pass, locals, calls, first_calls, others >>

InitLoad ==
    /\ tasks_json \in TaskFiles
    /\ omitted = <<>>
    /\ azure_tasks = <<>>
    /\ timecamp \in {DestFromConfig(cfg, MaxDestId) : cfg \in DestConfigs}
    /\ pc = "start"
    /\ pass = 1
    /\ timecamp_tasks_map = <<>>
    /\ source_to_timecamp_map = EmptyMap
    /\ active_external_ids = {}
    /\ hierarchy_level = <<>>
    /\ azure_tasks_sorted = <<>>
    /\ pos = 0
    /\ created_tasks = 0
    /\ existing_tasks = 0
    /\ archived_tasks = 0
    /\ calls = <<>>
    /\ first_calls = <<>>
    /\ ConfigIdle
    /\ FetchIdle
    /\ ScriptsIdle
    /\ ExportIdle
    /\ RedmineIdle
    /\ PagingIdle

NextLoad == LoadTasksFromJson \/ Next

SpecLoad == InitLoad /\ [][NextLoad]_vars

\* ------------- fetch_azuredevops.py main, then sync_projects_new.py: one run
\* of the fetcher on one instance whose fetching raises part-way, the snapshot
\* written to tasks.json, and a pass of the sync on it.
MaxSnapshotId == 4

\* json.dump and json.load keep the ids; the sync model knows the ids as
\* numbers, the ids of one organisation with one project are numbered in the
\* order of their texts: 'org_101' < 'org_101_1' < 'org_101_2' < 'org_101_PA'
SnapshotId(task_id) ==
    IF task_id = ROOT_PARENT THEN 0
    ELSE IF Len(task_id) = 2 THEN 1
    ELSE IF task_id[4] \in {"1", "3"} THEN 2
    ELSE IF task_id[4] \in {"2", "4"} THEN 3
    ELSE MaxSnapshotId

Snapshot(nodes) ==
    [k \in DOMAIN nodes |->
        [task_id |-> SnapshotId(nodes[k].task_id), parent_id |-> SnapshotId(nodes[k].parent_id)]]

\* fetch_all_data with one instance, lines 299-376: the organisation and the
\* project are appended; filtering the work items and identifying their
\* parents raises (lines 338-360), the exception is caught at line 373 and
\* the work items are not appended
FetchAllDataPartly ==
    /\ pc = "fetch"
    /\ \E project \in ProjectKeys :
           \E items \in ItemLists(fetcher, project) :
               LET instance_config == instances[1]
                   org_id == OrgId(instance_config.url)
                   nodes == << FlatNode(instance_config.name, org_id, ROOT_PARENT) >>
                                \o ProjectNodes(fetcher, org_id, project, items)
               IN  /\ Len(nodes) > 2
                   /\ flattened_data' = SubSeq(nodes, 1, 2)
                   /\ omitted' = SubSeq(nodes, 3, Len(nodes))
    /\ pc' = "returned"
    /\ UNCHANGED << azure_tasks, timecamp, pass, locals, calls, first_calls, configVars,
                    fetcher, inst_pos, projects, round, scriptVars, exportVars,
                    redmineVars, pagingVars, tasks_json >>

\* mutant: a fetch that met an error leaves tasks.json as it was
SaveToJson_NotWritten ==
    /\ pc = "returned"
    /\ pc' = "start"
    /\ UNCHANGED << azure_tasks, timecamp, pass, locals, calls, first_calls, configVars,
                    fetchVars, scriptVars, exportVars, redmineVars, moreVars >>

\* save_to_json, lines 378-395
SaveToJson ==
    /\ pc = "returned"
    /\ tasks_json' = [exists |-> TRUE, valid |-> TRUE, value |-> Snapshot(flattened_data)]
    /\ pc' = "start"
    /\ UNCHANGED << azure_tasks, timecamp, pass, locals, calls, first_calls, configVars,
                    fetchVars, scriptVars, exportVars, redmineVars, pagingVars, omitted >>

InitPartial ==
    /\ fetcher = "azure"
    /\ instances = << [name |-> <<"Org">>, url |-> <<"a.example">>, token |-> <<"tok">>] >>
    /\ configured = <<>>
    /\ AZUREDEVOPS_INSTANCES = <<>>
    /\ numbered_env = <<>>
    /\ inst_pos = 0
    /\ projects = <<>>
    /\ flattened_data = <<>>
    /\ round = <<>>
    /\ tasks_json = [exists |-> FALSE, valid |-> FALSE, value |-> <<>>]
    /\ omitted = <<>>
    /\ azure_tasks = <<>>
    /\ timecamp \in {DestFromConfig(cfg, MaxSnapshotId) :
                        cfg \in [1..MaxSnapshotId -> {"absent", "active", "archived"}]}
    /\ pc = "fetch"
    /\ pass = 1
    /\ timecamp_tasks_map = <<>>
    /\ source_to_timecamp_map = EmptyMap
    /\ active_external_ids = {}
    /\ hierarchy_level = <<>>
    /\ azure_tasks_sorted = <<>>
    /\ pos = 0
    /\ created_tasks = 0
    /\ existing_tasks = 0
    /\ archived_tasks = 0
    /\ calls = <<>>
    /\ first_calls = <<>>
    /\ ScriptsIdle
    /\ ExportIdle
    /\ RedmineIdle
    /\ PagingIdle

\* the snapshot of a partial fetch is not empty and has no parent cycle:
\* the pass neither returns at line 104 nor raises RecursionError
NextPartial ==
    \/ FetchAllDataPartly
    \/ SaveToJson
    \/ LoadTasksFromJson
    \/ StartPass
    \/ CreateTask
    \/ CreateTaskFails
    \/ ExistingTask
    \/ StartArchiving
    \/ ArchiveTask
    \/ ArchiveTaskFails
    \/ KeepTask
    \/ Finish

SpecPartial == InitPartial /\ [][NextPartial]_vars

\* ============================================================== properties
\* vocabulary of the properties, defined from the source list, the server's
\* task list and the log of API calls
SourceIds == {azure_tasks[k].task_id : k \in DOMAIN azure_tasks}

SourceExternalIds == {ExternalId(id) : id \in SourceIds}

DestTasks == Range(timecamp)

IsSyncTask(t) == Truthy(t.external_task_id) /\ StartsWithSync(t.external_task_id)

ActiveSyncExternalIds ==
    {t.external_task_id : t \in {u \in DestTasks : IsSyncTask(u) /\ ~u.archived}}

CreateCalls == {k \in DOMAIN calls : calls[k].op = "create"}

ArchiveCallsOf(task_id) ==
    {k \in DOMAIN calls : calls[k].op = "archive" /\ calls[k].task_id = task_id}

CreatedInPass(t) == \E k \in CreateCalls : calls[k].ok /\ calls[k].task_id = t.task_id

\* archived when the pass listed the tasks: archived now, and not by this pass
WasArchived(t) ==
    t.archived /\ ~\E k \in ArchiveCallsOf(t.task_id) : calls[k].ok

AllSucceeded(log) == \A k \in DOMAIN log : log[k].ok

PassEnded == pc = "done"

\* C1: after one pass the external ids of the active 'sync_' tasks of TimeCamp
\* are exactly the ids 'sync_' + task_id of the source list.
\* It is stated here for the passes most favourable to it: the source list
\* is not empty and every API call of the pass succeeded.
C1_Coverage ==
    (PassEnded /\ pass = 1 /\ azure_tasks # <<>> /\ AllSucceeded(calls))
        => ActiveSyncExternalIds = SourceExternalIds

\* the parent the mapping table gives a source node once the pass is over
MappedParent(task) ==
    IF task.parent_id # 0 /\ task.parent_id \in DOMAIN source_to_timecamp_map
    THEN source_to_timecamp_map[task.parent_id]
    ELSE TIMECAMP_TASK_ID

\* C2: after one pass every TimeCamp task correlated with a source node, made
\* by this pass or found by it, has the parent mapped from the node's
\* parent_id, or the root task when parent_id is 0 or unmapped.
C2_ParentFidelity ==
    (PassEnded /\ pass = 1) =>
        \A t \in DestTasks :
            (IsSyncTask(t) /\ t.external_task_id \in SourceExternalIds) =>
                \E k \in DOMAIN azure_tasks :
                    /\ ExternalId(azure_tasks[k].task_id) = t.external_task_id
                    /\ t.parent_id = MappedParent(azure_tasks[k])

\* C3: a pass that follows a pass in which every create and archive call
\* succeeded, on the same source list, issues no create and no archive call.
C3_Idempotence ==
    (pass >= 2 /\ AllSucceeded(first_calls)) => calls = <<>>

C3_Witness ==
    /\ pass = 2
    /\ PassEnded
    /\ calls = <<>>
    /\ \E k \in DOMAIN first_calls : first_calls[k].op = "create" /\ first_calls[k].ok
    /\ \E k \in DOMAIN first_calls : first_calls[k].op = "archive" /\ first_calls[k].ok

\* the archive calls a task must have received at the end of a pass
ExpectedArchiveCalls(t) ==
    IF IsSyncTask(t) /\ t.external_task_id \notin SourceExternalIds /\ ~WasArchived(t)
    THEN 1 ELSE 0

ArchivalExact ==
    /\ \A t \in DestTasks :
           Cardinality(ArchiveCallsOf(t.task_id)) = ExpectedArchiveCalls(t)
    /\ \A k \in DOMAIN calls :
           calls[k].op = "archive" => \E t \in DestTasks : t.task_id = calls[k].task_id

\* C4 (as claimed): in one pass every 'sync_' task of no source node gets
\* exactly one archive call if it is not archived and none if it is, and no
\* other task gets an archive call.
C4_ArchivalAnyPass == PassEnded => ArchivalExact

\* C4 (amended): the same, in a pass over a non-empty source list that runs
\* to its end; a pass over an empty list returns before the archive loop.
C4_Archival == (PassEnded /\ azure_tasks # <<>>) => ArchivalExact

C4_Witness ==
    /\ PassEnded
    /\ azure_tasks # <<>>
    /\ \E t \in DestTasks : Cardinality(ArchiveCallsOf(t.task_id)) = 1
    /\ \E t \in DestTasks :
           /\ IsSyncTask(t) /\ WasArchived(t)
           /\ t.external_task_id \notin SourceExternalIds
           /\ ArchiveCallsOf(t.task_id) = {}

\* ---- the parent walk, defined on the list alone
UniqueTaskIds ==
    \A a, b \in DOMAIN azure_tasks :
        azure_tasks[a].task_id = azure_tasks[b].task_id => a = b

\* the node a parent_id names: the first of the list with that task_id, 0 if none
ParentIndex(k) ==
    IF azure_tasks[k].parent_id = 0 THEN 0
    ELSE LET hits == {j \in DOMAIN azure_tasks :
                          azure_tasks[j].task_id = azure_tasks[k].parent_id}
         IN  IF hits = {} THEN 0 ELSE CHOOSE j \in hits : \A h \in hits : j <= h

\* the sequences of nodes that follow parent links from node k to a root
IndexPaths == SeqsUpTo(1..MaxTasks, MaxTasks)

PathsToRoot(k) ==
    {p \in IndexPaths :
        /\ p # <<>>
        /\ Range(p) \subseteq DOMAIN azure_tasks
        /\ p[1] = k
        /\ \A i \in 1..(Len(p) - 1) : p[i + 1] = ParentIndex(p[i])
        /\ azure_tasks[p[Len(p)]].parent_id = 0}

LevelsComputed == hierarchy_level # <<>>

\* C5: for a source list with unique task_ids in which every node reaches a
\* root by parent links, the level of a node is the number of links on its
\* path to the root.
C5_LevelIsPathLength ==
    (LevelsComputed /\ UniqueTaskIds
        /\ \A k \in DOMAIN azure_tasks : PathsToRoot(k) # {})
    => \A k \in DOMAIN azure_tasks :
           \A p \in PathsToRoot(k) : hierarchy_level[k] = Len(p) - 1

C5_Witness ==
    /\ LevelsComputed
    /\ UniqueTaskIds
    /\ \A k \in DOMAIN azure_tasks : PathsToRoot(k) # {}
    /\ \E k \in DOMAIN azure_tasks : \E p \in PathsToRoot(k) :
           Len(p) = 3 /\ hierarchy_level[k] = 2

RECURSIVE Ancestor(_, _)
Ancestor(k, n) ==
    IF n = 0 \/ k = 0 THEN k ELSE Ancestor(ParentIndex(k), n - 1)

\* node k lies on a cycle of parent links (a node that is its own parent too)
OnCycle(k) == \E n \in 1..Len(azure_tasks) : Ancestor(k, n) = k

\* the parent walk from node k never reaches a root or a missing parent
WalkNeverEnds(k) == Ancestor(k, Len(azure_tasks) + 1) # 0

\* C6: on a source list with a parent cycle the level computation ends for
\* every node with level 0 for the nodes of the cycle, and the pass proceeds.
C6_CycleTolerated ==
    (pc # "idle" /\ \E k \in DOMAIN azure_tasks : OnCycle(k)) =>
        /\ pc # "crashed"
        /\ LevelsComputed
        /\ \A k \in DOMAIN azure_tasks : OnCycle(k) => hierarchy_level[k] = 0

Dangling(k) == azure_tasks[k].parent_id # 0 /\ ParentIndex(k) = 0

\* the loop of the pass has handled node k: its external id is noted as
\* active and it has a TimeCamp task or a create call of its own
Handled(k) ==
    /\ ExternalId(azure_tasks[k].task_id) \in active_external_ids
    /\ \/ \E t \in DestTasks : t.external_task_id = ExternalId(azure_tasks[k].task_id)
       \/ \E c \in CreateCalls : calls[c].node = k

\* C7: a node whose non-zero parent_id names no task of the list gets level 0,
\* raises no error (a pass stops with an error only on an endless parent
\* walk), and is handled by the pass.
C7_DanglingParent ==
    \A k \in DOMAIN azure_tasks :
        Dangling(k) =>
            /\ get_hierarchy_level(azure_tasks[k], azure_tasks, 0) = 0
            /\ LevelsComputed => hierarchy_level[k] = 0
            /\ pc = "crashed" => \E j \in DOMAIN azure_tasks : WalkNeverEnds(j)
            /\ pc \in {"idle", "crashed"} \/ k \in Range(azure_tasks_sorted)
            /\ pc \in {"archive", "done"} => Handled(k)

C7_Witness ==
    /\ PassEnded
    /\ \E k \in DOMAIN azure_tasks :
           /\ Dangling(k)
           /\ hierarchy_level[k] = 0
           /\ \E c \in CreateCalls :
                  calls[c].node = k /\ calls[c].ok /\ calls[c].parent_id = TIMECAMP_TASK_ID

PositionOf(k) == CHOOSE p \in DOMAIN azure_tasks_sorted : azure_tasks_sorted[p] = k

\* the entry of task_id in source_to_timecamp_map is decided: it is there, or
\* the create call of a node with that task_id has failed
MappingDecided(task_id) ==
    \/ task_id \in DOMAIN source_to_timecamp_map
    \/ \E c \in CreateCalls : ~calls[c].ok /\ azure_tasks[calls[c].node].task_id = task_id

\* C8: in the order sorted by (_hierarchy_level, task_id) every node whose
\* parent_id names a task of the list comes strictly after that parent, and
\* the parent's mapping is decided when the loop reaches the child.
C8_ParentBeforeChild ==
    pc = "process" =>
        /\ Len(azure_tasks_sorted) = Len(azure_tasks)
        /\ Range(azure_tasks_sorted) = DOMAIN azure_tasks
        /\ \A k \in DOMAIN azure_tasks :
               ParentIndex(k) # 0 =>
                   /\ PositionOf(ParentIndex(k)) < PositionOf(k)
                   /\ pos = PositionOf(k) => MappingDecided(azure_tasks[k].parent_id)

C8_Witness ==
    /\ pc = "process"
    /\ \E k \in DOMAIN azure_tasks :
           /\ ParentIndex(k) # 0
           /\ k < ParentIndex(k)
           /\ azure_tasks[k].task_id < azure_tasks[ParentIndex(k)].task_id
           /\ pos = PositionOf(k)
           /\ PositionOf(ParentIndex(k)) < pos

Node(c) == azure_tasks[calls[c].node]

\* the TimeCamp tasks with this external id that were there before call c
TasksBefore(c, external_id) ==
    {t \in DestTasks :
        /\ t.external_task_id = external_id
        /\ ~\E d \in CreateCalls : d >= c /\ calls[d].ok /\ calls[d].task_id = t.task_id}

\* the parent a create call must carry, told from the source list, the
\* server's tasks and the earlier calls
ExpectedParent(c) ==
    LET parent_id == Node(c).parent_id
        there == TasksBefore(c, [prefix |-> "sync_", id |-> parent_id])
    IN  IF parent_id # 0 /\ parent_id \in SourceIds /\ there # {}
        THEN (CHOOSE t \in there : TRUE).task_id
        ELSE TIMECAMP_TASK_ID

\* C9: every create call carries the external id 'sync_' + task_id and, as
\* parent, the root task when parent_id is 0, the TimeCamp task the mapping
\* table holds for parent_id (found in TimeCamp or created earlier in the
\* pass) when there is one, and the root task when there is none.
C9_ParentAtCreate ==
    \A c \in CreateCalls :
        /\ calls[c].external_task_id.prefix = "sync_"
        /\ calls[c].external_task_id.id = Node(c).task_id
        /\ calls[c].parent_id = ExpectedParent(c)
        /\ calls[c].parent_id # TIMECAMP_TASK_ID =>
               /\ Node(c).parent_id \in DOMAIN source_to_timecamp_map
               /\ source_to_timecamp_map[Node(c).parent_id] = calls[c].parent_id
        /\ Node(c).parent_id = 0 => calls[c].parent_id = TIMECAMP_TASK_ID

C9_Witness ==
    \E c, d \in CreateCalls :
        /\ c < d
        /\ calls[c].ok /\ calls[d].ok
        /\ Node(c).parent_id = 0
        /\ calls[c].parent_id = TIMECAMP_TASK_ID
        /\ Node(d).parent_id = Node(c).task_id
        /\ calls[d].parent_id = calls[c].task_id

LoopPassed(k) ==
    \/ pc = "process" /\ PositionOf(k) < pos
    \/ pc \in {"archive", "done"}

\* C10: for a source node whose external id is on a TimeCamp task already,
\* the pass issues no call for that task or that external id, records
\* task_id -> id of that task in the mapping table, and creates the node's
\* children under that task.
C10_ExistingIsNoOp ==
    \A k \in DOMAIN azure_tasks : \A t \in DestTasks :
        (t.external_task_id = ExternalId(azure_tasks[k].task_id) /\ ~CreatedInPass(t)) =>
            /\ \A c \in DOMAIN calls :
                   /\ calls[c].task_id # t.task_id
                   /\ calls[c].external_task_id # t.external_task_id
            /\ LoopPassed(k) =>
                   /\ azure_tasks[k].task_id \in DOMAIN source_to_timecamp_map
                   /\ source_to_timecamp_map[azure_tasks[k].task_id] = t.task_id
            /\ \A c \in CreateCalls :
                   Node(c).parent_id = azure_tasks[k].task_id =>
                       calls[c].parent_id = t.task_id

C10_Witness ==
    /\ PassEnded
    /\ \E k \in DOMAIN azure_tasks : \E t \in DestTasks :
           /\ t.external_task_id = ExternalId(azure_tasks[k].task_id)
           /\ ~CreatedInPass(t)
           /\ source_to_timecamp_map[azure_tasks[k].task_id] = t.task_id
           /\ \E c \in CreateCalls :
                  /\ calls[c].ok
                  /\ Node(c).parent_id = azure_tasks[k].task_id
                  /\ calls[c].parent_id = t.task_id
           /\ \E u \in DestTasks : ArchiveCallsOf(u.task_id) # {}

OkCalls(op) == {k \in DOMAIN calls : calls[k].op = op /\ calls[k].ok}

FailedCalls(op) == {k \in DOMAIN calls : calls[k].op = op /\ ~calls[k].ok}

\* C11: a create or archive call that fails leaves the node without mapping
\* entry (an entry for its task_id can only come from a later create call
\* that succeeded, for a node with the same task_id) and without task, is
\* not counted as created or archived, and does not end the pass: the loops
\* go on, every source node is handled and every archive candidate gets its
\* call, and the pass reaches its end.
C11_PerNodeRecovery ==
    /\ created_tasks = Cardinality(OkCalls("create"))
    /\ archived_tasks = Cardinality(OkCalls("archive"))
    /\ \A c \in FailedCalls("create") :
           /\ Node(c).task_id \in DOMAIN source_to_timecamp_map =>
                  \E d \in OkCalls("create") :
                      d > c /\ calls[d].external_task_id = calls[c].external_task_id
           /\ (\A d \in OkCalls("create") : d < c) =>
                  \A t \in DestTasks : t.external_task_id # calls[c].external_task_id
    /\ \A a \in FailedCalls("archive") :
           \E t \in DestTasks : t.task_id = calls[a].task_id /\ ~t.archived
    /\ pc = "crashed" => calls = <<>>
    /\ pc \in {"process", "archive"} => ENABLED Next
    /\ pc \in {"archive", "done"} =>
           /\ \A k \in DOMAIN azure_tasks : Handled(k)
           /\ Cardinality(CreateCalls) + existing_tasks = Len(azure_tasks)
    /\ (PassEnded /\ azure_tasks # <<>>) => ArchivalExact

C11_Witness ==
    /\ PassEnded
    /\ \E c \in FailedCalls("create") : \E d \in OkCalls("create") : c < d
    /\ \E a \in FailedCalls("archive") : \E b \in OkCalls("archive") : a < b
    /\ created_tasks = 1
    /\ archived_tasks = 1

\* node k descends from node a by parent links
Descends(k, a) == \E n \in 1..Len(azure_tasks) : Ancestor(k, n) = a

IgnoredTasks == {t \in DestTasks : t.external_task_id.prefix # "sync_"}

\* C13: a TimeCamp task whose external id is missing or does not start with
\* 'sync_' is not in timecamp_tasks_map (it is matched with no source node),
\* is no value of the mapping table, is the parent of no created task and
\* gets no call; it is never archived.
C13_NonSyncIgnored ==
    \A t \in IgnoredTasks :
        /\ \A k \in DOMAIN timecamp_tasks_map : timecamp_tasks_map[k].task_id # t.task_id
        /\ \A id \in DOMAIN source_to_timecamp_map : source_to_timecamp_map[id] # t.task_id
        /\ \A c \in DOMAIN calls :
               calls[c].task_id # t.task_id /\ calls[c].parent_id # t.task_id
        /\ \A c \in DOMAIN first_calls :
               first_calls[c].task_id # t.task_id /\ first_calls[c].parent_id # t.task_id
        /\ ~t.archived

C13_Witness ==
    /\ PassEnded
    /\ \E t, u \in IgnoredTasks :
           /\ t.external_task_id = NoExternalId
           /\ u.external_task_id = [prefix |-> "redmine_", id |-> 1]
           /\ \E c \in OkCalls("create") :
                  /\ calls[c].external_task_id = ExternalId(1)
                  /\ calls[c].task_id \notin {t.task_id, u.task_id}
           /\ \E d \in OkCalls("create") : Node(d).parent_id = 1
    /\ OkCalls("archive") # {}

\* ---- the outcome of one uninterrupted pass, told from the source list and
\* the tasks TimeCamp held before the first run
CreatedByRuns(t) ==
    \/ \E c \in DOMAIN calls :
           calls[c].op = "create" /\ calls[c].ok /\ calls[c].task_id = t.task_id
    \/ \E c \in DOMAIN first_calls :
           first_calls[c].op = "create" /\ first_calls[c].ok
               /\ first_calls[c].task_id = t.task_id

InitialTasks == {t \in DestTasks : ~CreatedByRuns(t)}

RootTag == [prefix |-> "root", id |-> 0]

\* a parent link, as the external id of the parent task
ParentTag(parent_id) ==
    IF parent_id = TIMECAMP_TASK_ID THEN RootTag
    ELSE (CHOOSE t \in DestTasks : t.task_id = parent_id).external_task_id

Outcome(external_id, parent, archived) ==
    [external_task_id |-> external_id, parent |-> parent, archived |-> archived]

\* the node that stands for task_id in the pass: the first in the order of
\* (level, position)
FirstNodeOf(task_id) ==
    CHOOSE k \in DOMAIN azure_tasks :
        /\ azure_tasks[k].task_id = task_id
        /\ \A j \in DOMAIN azure_tasks :
               azure_tasks[j].task_id = task_id =>
                   \/ hierarchy_level[k] < hierarchy_level[j]
                   \/ hierarchy_level[k] = hierarchy_level[j] /\ k <= j

ExpectedOutcome ==
    {Outcome(t.external_task_id, ParentTag(t.parent_id),
             \/ WasArchived(t)
             \/ azure_tasks # <<>> /\ IsSyncTask(t)
                    /\ t.external_task_id \notin SourceExternalIds)
         : t \in InitialTasks}
    \cup
    {Outcome(ExternalId(id),
             LET parent_id == azure_tasks[FirstNodeOf(id)].parent_id
             IN  IF parent_id \in SourceIds THEN ExternalId(parent_id) ELSE RootTag,
             FALSE)
         : id \in {x \in SourceIds :
                      \A t \in InitialTasks : t.external_task_id # ExternalId(x)}}

ActualOutcome ==
    {Outcome(t.external_task_id, ParentTag(t.parent_id), t.archived) : t \in DestTasks}

NoSharedExternalId ==
    \A t, u \in DestTasks :
        (IsSyncTask(t) /\ t.external_task_id = u.external_task_id) => t = u

\* C14: when a pass is interrupted after any number of create calls and a
\* complete pass then runs on the same source list, no 'sync_' external id
\* is on two TimeCamp tasks, and the tasks, their parent links and their
\* archived flags are those a single uninterrupted pass leaves (every API
\* call of the runs succeeding).
C14_InterruptedRunRecovery ==
    /\ NoSharedExternalId
    /\ (PassEnded /\ AllSucceeded(calls) /\ AllSucceeded(first_calls)) =>
           ActualOutcome = ExpectedOutcome

C14_Witness ==
    /\ PassEnded
    /\ pass = 2
    /\ AllSucceeded(calls) /\ AllSucceeded(first_calls)
    /\ \E c \in DOMAIN first_calls : \E d \in OkCalls("create") :
           /\ first_calls[c].op = "create"
           /\ calls[d].parent_id = first_calls[c].task_id
    /\ \E k \in DOMAIN azure_tasks :
           \A c \in DOMAIN first_calls : first_calls[c].node # k
    /\ OkCalls("archive") # {}

\* C19: the variable AZUREDEVOPS_INSTANCES, written as name:url:token[,...],
\* gives one instance per entry whose name, url and token are the three
\* fields, also when the url or the token contains ':'.
C19_FieldsPreserved ==
    pc = "loaded" =>
        /\ Len(instances) >= Len(configured)
        /\ \A k \in DOMAIN configured : instances[k] = configured[k]

\* C15: for every list of instances a loader returns, fetch_all_data does
\* not abort when the fetch of an instance fails, and goes through every
\* instance that follows.
C15_InstanceFailureIsolated ==
    /\ pc # "aborted"
    /\ pc = "returned" => inst_pos = Len(instances) + 1

\* C18: no two nodes of the list fetch_all_data builds have the same
\* task_id, also when two instances share a url or an org id.
C18_UniqueSourceIds ==
    \A a, b \in DOMAIN flattened_data :
        flattened_data[a].task_id = flattened_data[b].task_id => a = b

\* C16: in every script, when a credential or the root task id is not
\* configured, the run ends before a request goes to the source or the
\* destination system.
C16_ConfigCheckedFirst ==
    ~(RequiredConfig(script) \subseteq env) => network = <<>>

\* ---- the entries the export tolerates, told from the entry alone
NoExternalIdKey(e) == "addons_external_id" \notin DOMAIN e

NotRedmine(e) ==
    /\ ~NoExternalIdKey(e)
    /\ ~(Len(e.addons_external_id) >= 2
            /\ e.addons_external_id[1] = "redmine" /\ e.addons_external_id[2] = "_")

\* the text after the last "_" is not a number
NonNumericId(e) ==
    /\ ~NoExternalIdKey(e) /\ ~NotRedmine(e)
    /\ LET x == e.addons_external_id
       IN  x[Len(x)] \notin {"5", "7"}

UnmappedUser(e) == e.user_id \notin DOMAIN user_mapping

Tolerated(e) == NoExternalIdKey(e) \/ NotRedmine(e) \/ NonNumericId(e) \/ UnmappedUser(e)

ExportedAs(k) == {r \in DOMAIN redmine_time_entries : redmine_time_entries[r].tc = k}

\* C17: an entry without addons_external_id, with one that does not start
\* with 'redmine_', with a non-numeric id part, or of a user without mapping
\* gives no time entry in Redmine and no error, and handle_time_entries goes
\* on with the entries after it.
C17_DataQualityTolerance ==
    /\ \A k \in DOMAIN tc_entries : Tolerated(tc_entries[k]) => ExportedAs(k) = {}
    /\ pc = "aborted" => (entry_pos \in DOMAIN tc_entries /\ ~Tolerated(tc_entries[entry_pos]))
    /\ \A k \in DOMAIN tc_entries :
           ((pc \in {"export", "aborted"} /\ k < entry_pos) \/ pc = "finished") =>
               (Tolerated(tc_entries[k]) \/ Cardinality(ExportedAs(k)) = 1)
    /\ (AtEntry /\ Tolerated(tc_entries[entry_pos])) => ENABLED IgnoreEntry

C17_Witness ==
    /\ pc = "finished"
    /\ Len(tc_entries) = 3
    /\ NonNumericId(tc_entries[1]) /\ ~UnmappedUser(tc_entries[1])
    /\ UnmappedUser(tc_entries[2]) /\ ~NonNumericId(tc_entries[2])
         /\ ~NoExternalIdKey(tc_entries[2]) /\ ~NotRedmine(tc_entries[2])
    /\ ExportedAs(3) # {}
    /\ redmine_time_entries[1].issue_id = 5

\* ---- Redmine as the claim speaks of it
ActiveProjectIds ==
    {redmine.projects[k].id :
         k \in {j \in DOMAIN redmine.projects : redmine.projects[j].status = 1}}

OpenIssueIds == {issue.id : issue \in {i \in redmine.issues : i.project_id \in ActiveProjectIds}}

\* the number of archive calls the claim gives a task of TimeCamp
ExpectedRedmineArchiveCalls(t) ==
    IF WasArchived(t) THEN 0
    ELSE IF t.external_task_id.prefix = "redmine_task_"
         THEN IF t.external_task_id.id \in OpenIssueIds THEN 0 ELSE 1
    ELSE IF t.external_task_id.prefix = "redmine_"
         THEN IF t.external_task_id.id \in ActiveProjectIds THEN 0 ELSE 1
    ELSE 0

\* C20: in a run of the Redmine sync that reaches its end, a task tagged
\* 'redmine_task_<id>' that is not archived gets an archive call exactly when
\* issue <id> is not an open issue of an active project, a task tagged
\* 'redmine_<id>' that is not archived exactly when project <id> is not
\* active, and a task that is archived already gets none.
C20_RedmineArchival ==
    pc = "finished" =>
        /\ \A t \in DestTasks :
               /\ Cardinality(ArchiveCallsOf(t.task_id)) = ExpectedRedmineArchiveCalls(t)
               /\ t.archived <=> (WasArchived(t) \/ ExpectedRedmineArchiveCalls(t) = 1)
        /\ \A c \in DOMAIN calls :
               calls[c].op = "archive" => \E t \in DestTasks : t.task_id = calls[c].task_id

C20_Witness ==
    /\ pc = "finished"
    /\ \E t, u, v, w \in DestTasks :
           /\ t.external_task_id.prefix = "redmine_task_"
           /\ t.external_task_id.id \notin OpenIssueIds
           /\ Cardinality(ArchiveCallsOf(t.task_id)) = 1
           /\ \E i \in redmine.issues : i.id = t.external_task_id.id
           /\ u.external_task_id.prefix = "redmine_task_"
           /\ u.external_task_id.id \in OpenIssueIds
           /\ ~u.archived /\ ~CreatedInPass(u)
           /\ v.external_task_id.prefix = "redmine_"
           /\ v.external_task_id.id \notin ActiveProjectIds
           /\ Cardinality(ArchiveCallsOf(v.task_id)) = 1
           /\ w.external_task_id.prefix = "redmine_"
           /\ WasArchived(w)

\* ---- the work items of the round as the claim speaks of them
RoundItems == Range(round.items)

RoundNodes == SubSeq(flattened_data, round.start + 1, Len(flattened_data))

RoundOrgId == OrgId(instances[inst_pos].url)

RoundProjectTaskId == RoundOrgId \o <<"_", round.project>>

WorkItemTaskId(id) == RoundOrgId \o <<"_", id>>

NotDone(item) == item.state \notin {"Done", "done", "DONE"}

\* the work item the first Hierarchy-Reverse relation of the item points to
FirstReverseTarget(item) ==
    LET reverse == {k \in DOMAIN item.relations : item.relations[k].rel = HierarchyReverse}
        first == CHOOSE k \in reverse : \A other \in reverse : k <= other
    IN  IF reverse = {} THEN "" ELSE item.relations[first].url[Len(item.relations[first].url)]

ExpectedAzureParent(item) ==
    IF \E parent \in RoundItems : parent.id = FirstReverseTarget(item) /\ NotDone(parent)
    THEN WorkItemTaskId(FirstReverseTarget(item))
    ELSE RoundProjectTaskId

\* C21: when fetch_azuredevops.py has worked on a project, the nodes it
\* appended are the project and one node per work item that is not done, in
\* the order of the server: no node for a done work item, and each node's
\* parent_id is the task_id of the first Hierarchy-Reverse parent where that is
\* a work item of the project that is not done, the project's task_id
\* otherwise.  The nodes stay in the list until it is returned.
C21_AzureFlattening ==
    /\ (fetcher = "azure" /\ round # <<>>) =>
           LET kept == SelectSeq(round.items, NotDone)
           IN  /\ Len(RoundNodes) = Len(kept) + 1
               /\ RoundNodes[1].task_id = RoundProjectTaskId
               /\ \A k \in DOMAIN kept :
                      /\ RoundNodes[k + 1].task_id = WorkItemTaskId(kept[k].id)
                      /\ RoundNodes[k + 1].parent_id = ExpectedAzureParent(kept[k])
               /\ \A item \in RoundItems :
                      ~NotDone(item) =>
                          \A k \in DOMAIN RoundNodes :
                              RoundNodes[k].task_id # WorkItemTaskId(item.id)

C21_Witness ==
    /\ fetcher = "azure"
    /\ round # <<>>
    /\ \E done, child \in RoundItems :
           /\ ~NotDone(done)
           /\ NotDone(child)
           /\ Len(child.relations) = 2
           /\ child.relations[1].rel = HierarchyForward
           /\ FirstReverseTarget(child) = done.id
           /\ \E k \in DOMAIN RoundNodes :
                  /\ RoundNodes[k].task_id = WorkItemTaskId(child.id)
                  /\ RoundNodes[k].parent_id = RoundProjectTaskId
    /\ Len(flattened_data) > Len(RoundNodes) + 1

\* ---- pagination as the claim speaks of it
RequestFailed == \E k \in DOMAIN page_log : page_log[k] = -1

ReturnedKeys == [k \in DOMAIN returned |-> returned[k].id]

\* C22: get_issues_for_project comes to an end for every number of issues;
\* when no request failed it returns the issues of the server, each once and
\* in order, and the last page it asked for is the first one that was empty
\* or not full; when a request failed it returns the empty list.
C22_JiraPagination ==
    /\ <>(pc = "returned")
    /\ [](pc = "returned" =>
            /\ RequestFailed => returned = <<>>
            /\ ~RequestFailed =>
                  /\ ReturnedKeys = jira_issues
                  /\ page_log[Len(page_log)] < max_results
                  /\ \A k \in 1..(Len(page_log) - 1) : page_log[k] = max_results)

C22_Witness ==
    /\ pc = "returned"
    /\ ~RequestFailed
    /\ Len(jira_issues) = 2 * max_results
    /\ Len(page_log) = 3
    /\ page_log[3] = 0
    /\ Len(returned) = Len(jira_issues)

\* ---- tasks.json as the claim speaks of it
NoSourceTasks == ~tasks_json.exists \/ ~tasks_json.valid \/ tasks_json.value = <<>>

\* C23: with tasks.json missing, unparseable or an empty list, the step the
\* sync function takes after the load is its return: the tasks of TimeCamp
\* are not listed (the map built from the list stays empty), no create and no
\* archive call is issued, and every task of TimeCamp stays as it is.
C23_EmptySourceShortCircuit ==
    [][(pc = "idle" /\ NoSourceTasks) =>
          /\ pc' = "done"
          /\ timecamp_tasks_map' = <<>>
          /\ calls' = <<>>
          /\ timecamp' = timecamp]_vars

C23_Witness ==
    /\ pc = "done"
    /\ tasks_json.exists
    /\ ~tasks_json.valid
    /\ tasks_json.value # <<>>
    /\ calls = <<>>
    /\ timecamp_tasks_map = <<>>
    /\ \E t \in DestTasks : IsSyncTask(t) /\ ~t.archived

\* ---- the archived tasks of TimeCamp a source node matches
ArchivedMatches ==
    {t \in DestTasks :
         IsSyncTask(t) /\ WasArchived(t) /\ t.external_task_id \in SourceExternalIds}

NodesWithoutCreateCall ==
    {k \in DOMAIN azure_tasks : ~\E c \in CreateCalls : calls[c].node = k}

\* C24: when the processing loop of a pass is over, a 'sync_' task of
\* TimeCamp that was archived when the pass began and that a source node
\* matches has received no call at all (no create, no archive, and there is
\* no call that un-archives), its nodes are among the nodes counted as
\* existing, the mapping table leads from the source id to its task_id, and
\* every task the pass created for a child of the node has it as parent.
C24_ArchivedMatchIsExisting ==
    pc \in {"archive", "done"} =>
        /\ existing_tasks = Cardinality(NodesWithoutCreateCall)
        /\ \A t \in ArchivedMatches :
               /\ t.archived
               /\ \A c \in DOMAIN calls :
                      /\ calls[c].task_id # t.task_id
                      /\ calls[c].external_task_id # t.external_task_id
                      /\ calls[c].op \in {"create", "archive"}
               /\ \A k \in DOMAIN azure_tasks :
                      ExternalId(azure_tasks[k].task_id) = t.external_task_id =>
                          k \in NodesWithoutCreateCall
               /\ t.external_task_id.id \in DOMAIN source_to_timecamp_map
               /\ source_to_timecamp_map[t.external_task_id.id] = t.task_id
               /\ \A c \in CreateCalls :
                      (calls[c].ok /\ azure_tasks[calls[c].node].parent_id = t.external_task_id.id)
                          => /\ calls[c].parent_id = t.task_id
                             /\ \E child \in DestTasks :
                                    /\ child.task_id = calls[c].task_id
                                    /\ child.parent_id = t.task_id

C24_Witness ==
    /\ pc = "done"
    /\ \E t \in ArchivedMatches :
           \E c \in CreateCalls :
               /\ calls[c].ok
               /\ calls[c].parent_id = t.task_id
               /\ azure_tasks[calls[c].node].parent_id = t.external_task_id.id

\* ---- the nodes a partial fetch left out
OmittedExternalIds ==
    {ExternalId(SnapshotId(omitted[k].task_id)) : k \in DOMAIN omitted}
        \ {ExternalId(SnapshotId(flattened_data[k].task_id)) : k \in DOMAIN flattened_data}

OrphanedByFetch ==
    {t \in DestTasks :
         /\ IsSyncTask(t)
         /\ t.external_task_id \in OmittedExternalIds
         /\ ~WasArchived(t)
         /\ ~CreatedInPass(t)}

\* C25: after a fetch that failed part-way the snapshot holds the nodes
\* appended before the failure and none of those after it; when the pass of
\* the sync on this snapshot is over, every 'sync_' task of TimeCamp that was
\* active and belongs to a node left out has received one archive call, and
\* is archived if the call succeeded.
C25_PartialFetchArchives ==
    /\ pc \notin {"fetch"} =>
           /\ omitted # <<>>
           /\ flattened_data # <<>>
           /\ \A k \in DOMAIN omitted :
                  \A j \in DOMAIN flattened_data : omitted[k].task_id # flattened_data[j].task_id
    /\ pc \in {"idle", "process", "archive", "done"} => azure_tasks = Snapshot(flattened_data)
    /\ pc = "done" =>
           \A t \in OrphanedByFetch :
               /\ Cardinality(ArchiveCallsOf(t.task_id)) = 1
               /\ (\A c \in ArchiveCallsOf(t.task_id) : calls[c].ok) => t.archived

C25_Witness ==
    /\ pc = "done"
    /\ Len(omitted) = 2
    /\ Len(flattened_data) = 2
    /\ \E t, u \in OrphanedByFetch :
           /\ t # u
           /\ t.archived
           /\ u.archived

\* ---- the run of the Redmine sync that met an error
LastCall == calls[Len(calls)]

CreateFailed == calls # <<>> /\ LastCall.op = "create" /\ ~LastCall.ok

\* C26: in sync_projects_and_tasks a call that fails is the last thing the
\* run does: the failed call is the last call of the log and no step follows
\* it, so the projects and issues after it are not processed; when the call
\* that failed is a create call, the log holds no archive call.
C26_RedmineNoRecovery ==
    /\ \A c \in DOMAIN calls : ~calls[c].ok => (pc = "aborted" /\ c = Len(calls))
    /\ pc = "aborted" => ~ENABLED NextRedmine
    /\ CreateFailed => \A c \in DOMAIN calls : calls[c].op # "archive"

C26_Witness ==
    /\ pc = "aborted"
    /\ CreateFailed
    /\ LastCall.external_task_id.prefix = "redmine_task_"
    /\ project_pos < Len(redmine_projects)
    /\ \E c \in DOMAIN calls : calls[c].op = "create" /\ calls[c].ok
    /\ \E t \in DestTasks :
           /\ t.external_task_id.prefix = "redmine_task_"
           /\ ~t.archived
           /\ t.external_task_id.id \notin OpenIssueIds

\* ---- external ids in TimeCamp
UniqueExternalIds ==
    \A a, b \in DOMAIN timecamp :
        (/\ Truthy(timecamp[a].external_task_id)
         /\ timecamp[a].external_task_id = timecamp[b].external_task_id) => a = b

TaskTagged(e) ==
    LET x == e.addons_external_id
    IN  Len(x) >= 4 /\ x[3] = "task" /\ x[4] = "_"

TagNumber(e) ==
    LET x == e.addons_external_id
    IN  IF x[Len(x)] = "5" THEN 5 ELSE 7

EligibleEntries == {k \in DOMAIN tc_entries : ~Tolerated(tc_entries[k])}

\* C28: when an invocation of handle_time_entries is over, Redmine holds for
\* every eligible entry of TimeCamp as many time entries as there were
\* invocations, one per invocation, each with issue_id n and no project_id
\* for the tag 'redmine_task_<n>' and with project_id n and no issue_id for
\* the tag 'redmine_<n>', and holds none for the other entries.
C28_ExportNotDeduplicated ==
    pc = "finished" =>
        /\ Len(redmine_time_entries) = pass * Cardinality(EligibleEntries)
        /\ \A k \in EligibleEntries :
               /\ Cardinality(ExportedAs(k)) = pass
               /\ \A r \in ExportedAs(k) :
                      IF TaskTagged(tc_entries[k])
                      THEN /\ redmine_time_entries[r].issue_id = TagNumber(tc_entries[k])
                           /\ redmine_time_entries[r].project_id = 0
                      ELSE /\ redmine_time_entries[r].project_id = TagNumber(tc_entries[k])
                           /\ redmine_time_entries[r].issue_id = 0

C28_Witness ==
    /\ pc = "finished"
    /\ pass = 2
    /\ \E a, b \in EligibleEntries :
           /\ TaskTagged(tc_entries[a])
           /\ ~TaskTagged(tc_entries[b])
           /\ Cardinality(ExportedAs(a)) = 2
           /\ Cardinality(ExportedAs(b)) = 2
    /\ \E k \in DOMAIN tc_entries : Tolerated(tc_entries[k])

\* the parent_id of the node at position k of flattened_data is the task_id
\* of a node at another position
ParentInList(k) ==
    \E j \in DOMAIN flattened_data :
        j # k /\ flattened_data[j].task_id = flattened_data[k].parent_id

====
